---- MODULE Spec2Model ----
(***************************************************************************)
(* Verification model of the strategy-vetting and guard subsystem          *)
(* (core/security.py and the core/security package).                       *)
(*                                                                         *)
(* Conventions                                                             *)
(*  - A module name or an exception message is a sequence of tokens; "."   *)
(*    is a token of its own.  The tokens form a prefix code (no token is a *)
(*    prefix of another), so str.startswith and `in` on the characters are *)
(*    exactly prefix and infix on the token sequences.                     *)
(*  - The wall clock (time.time()) counts ticks of half a second, so the   *)
(*    two 0.5 s intervals of the source are 1 tick.  Limits the source     *)
(*    gives in seconds go through Ticks().                                 *)
(*  - Memory is in whole megabytes; the factors 1.15 and 0.8 are applied   *)
(*    exactly (as 115/100 and 8/10).                                       *)
(***************************************************************************)
EXTENDS Integers, Sequences, FiniteSets, Bags, TLC

VARIABLES
    now,            \* time.time(), in ticks
    pytest_loaded,  \* 'pytest' in sys.modules or 'unittest' in sys.modules
    relaxed_limits, \* the module-level rebinding of MAX_CPU_TIME / MAX_EXECUTION_TIME happened
    meta_path,      \* sys.meta_path: finder ids, 0 = the interpreter's own finders
    inv,            \* identity of the ImportHook / ResourceMonitor of the current invocation
    pc,             \* position of the wrapper: "idle", "running", "returned", "raised"
    hook,           \* the ImportHook instance
    denied,         \* per module name, how many find_module calls raised
    last_import,    \* the last find_module call and how it ended
    attempts,       \* the find_module calls made on the hook since its construction,
                    \* in order: << fullname, time >>
    monitor,        \* the ResourceMonitor instance
    mon_out,        \* the last ResourceMonitor operation and how it ended
    events,         \* security_context['events'], the event types in order
    warnings,       \* security_context['warnings']
    suspicious_activity, \* security_context['suspicious_activity']
    callable_end,   \* how the guarded callable ended
    result,         \* what the wrapper handed to its caller
    validator,      \* which validate_strategy_file the name core.security resolves to
    source_file,    \* the strategy file handed to validate_strategy_file
    verdict,        \* how validate_strategy_file ended
    verdicts,       \* per finished call of validate_strategy_file on the file, in order:
                    \* what sys.modules held and how the call ended
    tree,           \* ast.parse(code) of the module handed to an analyzer
    complexity_analyzer, \* the ComplexityAnalyzer instance
    data_flow_analyzer,  \* the DataFlowAnalyzer instance
    guards,         \* per thread that runs a guarded call: the position of its wrapper,
                    \* its ImportHook, the imports its own callable attempted, its
                    \* security_context and what it handed to its caller
    sampling,       \* the thread that runs start_continuous_monitoring on the monitor
                    \* (loop: its position) and the thread that stops it (owner)
    config_manager, \* the ConfigManager instance
    config_file     \* config.yaml in the directory of the ConfigManager

vars == << now, pytest_loaded, relaxed_limits, meta_path, inv, pc, hook, denied,
           last_import, attempts, monitor, mon_out, events, warnings, suspicious_activity,
           callable_end, result, validator, source_file, verdict, verdicts, tree,
           complexity_analyzer, data_flow_analyzer, guards, sampling,
           config_manager, config_file >>

envVars   == << pytest_loaded, relaxed_limits >>
hookVars  == << hook, denied, last_import, attempts >>
monVars   == << monitor, mon_out >>
guardVars == << pc, events, warnings, suspicious_activity, callable_end, result >>
analyzerVars == << tree, complexity_analyzer, data_flow_analyzer >>
vetVars   == << validator, source_file, verdict, verdicts, analyzerVars >>
threadVars == << guards >>
\* the state of the parts an operation of another part never touches
configVars == << config_manager, config_file >>
samplerVars == << sampling >>
otherVars == << threadVars, samplerVars, configVars >>

-----------------------------------------------------------------------------
(* Bounds of the model *)

MaxTime == 2
MaxHookImports == 2
MaxStormImports == 17
MaxImports == 2
MaxInvocations == 2
MaxSamples == 2
MaxLeakSamples == 11
MaxFragments == 2
MaxRevalidatedFragments == 1
MaxValidations == 3
MaxFunctions == 2
MaxDataFlowFragments == 3
MaxThreadImports == 2
MaxOsFragments == 2
MaxConfigCalls == 3
MaxTaintFragments == 4
MaxSamplerTime == 2

-----------------------------------------------------------------------------
(* Policy: core/security.py lines 17-53 *)

Dot == "."

ALLOWED_MODULES ==
    { <<"pandas">>, <<"numpy">>, <<"datetime">>, <<"typing">>,
      <<"core", Dot, "config">>, <<"core", Dot, "strategies">>,
      <<"core", Dot, "strategies", Dot, "base_strategy">>,
      <<"submit_strategies">>, <<"pandas", "_datareader">>, <<"scipy">>, <<"time">> }

MAX_MEMORY_MB == 512
MAX_CPU_TIME == 10
MAX_EXECUTION_TIME == 30
TEST_MAX_CPU_TIME == 30
TEST_MAX_EXECUTION_TIME == 60

\* Seconds to clock ticks (one tick is half a second).
Ticks(seconds) == seconds * 2

\* is_test_mode()
is_test_mode_StrictOnce == pytest_loaded \/ verdicts # << >>

is_test_mode == pytest_loaded

\* The limits in force: lines 61-64 rebind the two names once, at import.
CpuTimeLimit == IF relaxed_limits THEN TEST_MAX_CPU_TIME ELSE MAX_CPU_TIME
ExecutionTimeLimit == IF relaxed_limits THEN TEST_MAX_EXECUTION_TIME ELSE MAX_EXECUTION_TIME

-----------------------------------------------------------------------------
(* Strings as token sequences *)

StartsWith(s, prefix) ==
    /\ Len(prefix) <= Len(s)
    /\ SubSeq(s, 1, Len(prefix)) = prefix

Contains(s, part) ==
    \E i \in 0..(Len(s) - Len(part)) : SubSeq(s, i + 1, i + Len(part)) = part

\* list.remove(x): the first occurrence goes, the order of the rest stays.
RECURSIVE ListRemove(_, _)
ListRemove(list, x) ==
    IF list = << >> THEN << >>
    ELSE IF Head(list) = x THEN Tail(list)
    ELSE << Head(list) >> \o ListRemove(Tail(list), x)

InList(list, x) == \E i \in 1..Len(list) : list[i] = x

-----------------------------------------------------------------------------
(* ImportHook: core/security.py lines 205-283 *)

max_import_count == 15
min_import_interval == 1

NewImportHook ==
    [ module_usage       |-> << >>,
      import_times       |-> << >>,
      suspicious_modules |-> {} ]

\* __enter__: sys.meta_path.insert(0, self)
HookEnterPath(path, id) == << id >> \o path

\* __exit__: sys.meta_path.remove(self)
HookExitPath_Keep(path, id) == path
HookExitPath(path, id) == ListRemove(path, id)

\* The allow decision of find_module, lines 258-269.
IsAllowedModule_NoDot(fullname) ==
    \/ StartsWith(fullname, << "submit_strategies", Dot >>)
    \/ fullname = << "os" >>
    \/ \E allowed \in ALLOWED_MODULES : StartsWith(fullname, allowed)

IsAllowedModule(fullname) ==
    \/ StartsWith(fullname, << "submit_strategies", Dot >>)
    \/ fullname = << "os" >>
    \/ \E allowed \in ALLOWED_MODULES :
          fullname = allowed \/ StartsWith(fullname, Append(allowed, Dot))

ImportErrorMessage(fullname) ==
    << "Import of module '" >> \o fullname \o << "' is not allowed" >>

\* find_module(fullname) at time current_time: the hook afterwards and whether
\* the call raised SecurityError.
FindModule_CachedDenial(h, fullname, current_time) ==
    LET seen   == fullname \in DOMAIN h.module_usage
        count  == (IF seen THEN h.module_usage[fullname] ELSE 0) + 1
        times  == Append(IF seen THEN h.import_times[fullname] ELSE << >>, current_time)
        usage2 == (fullname :> count) @@ h.module_usage
        times2 == (fullname :> times) @@ h.import_times
        excessive == count > max_import_count
        rapid  == /\ Len(times) >= 2
                  /\ times[Len(times)] - times[Len(times) - 1] < min_import_interval
        flagged == h.suspicious_modules
                      \cup (IF excessive THEN {fullname} ELSE {})
                      \cup (IF rapid THEN {fullname} ELSE {})
    IN  IF IsAllowedModule(fullname) \/ fullname \in h.suspicious_modules
        THEN [ hook   |-> [ module_usage |-> usage2, import_times |-> times2,
                            suspicious_modules |-> flagged ],
               raised |-> FALSE ]
        ELSE [ hook   |-> [ module_usage |-> usage2, import_times |-> times2,
                            suspicious_modules |-> flagged \cup {fullname} ],
               raised |-> TRUE ]

FindModule_DenialsUncounted(h, fullname, current_time) ==
    LET seen   == fullname \in DOMAIN h.module_usage
        count  == (IF seen THEN h.module_usage[fullname] ELSE 0) + 1
        times  == Append(IF seen THEN h.import_times[fullname] ELSE << >>, current_time)
        usage2 == (fullname :> count) @@ h.module_usage
        times2 == (fullname :> times) @@ h.import_times
        excessive == count > max_import_count
        rapid  == /\ Len(times) >= 2
                  /\ times[Len(times)] - times[Len(times) - 1] < min_import_interval
        flagged == h.suspicious_modules
                      \cup (IF excessive THEN {fullname} ELSE {})
                      \cup (IF rapid THEN {fullname} ELSE {})
    IN  IF IsAllowedModule(fullname)
        THEN [ hook   |-> [ module_usage |-> usage2, import_times |-> times2,
                            suspicious_modules |-> flagged ],
               raised |-> FALSE ]
        ELSE [ hook   |-> [ h EXCEPT !.suspicious_modules = @ \cup {fullname} ],
               raised |-> TRUE ]

FindModule(h, fullname, current_time) ==
    LET seen   == fullname \in DOMAIN h.module_usage
        count  == (IF seen THEN h.module_usage[fullname] ELSE 0) + 1
        times  == Append(IF seen THEN h.import_times[fullname] ELSE << >>, current_time)
        usage2 == (fullname :> count) @@ h.module_usage
        times2 == (fullname :> times) @@ h.import_times
        excessive == count > max_import_count
        rapid  == /\ Len(times) >= 2
                  /\ times[Len(times)] - times[Len(times) - 1] < min_import_interval
        flagged == h.suspicious_modules
                      \cup (IF excessive THEN {fullname} ELSE {})
                      \cup (IF rapid THEN {fullname} ELSE {})
    IN  IF IsAllowedModule(fullname)
        THEN [ hook   |-> [ module_usage |-> usage2, import_times |-> times2,
                            suspicious_modules |-> flagged ],
               raised |-> FALSE ]
        ELSE [ hook   |-> [ module_usage |-> usage2, import_times |-> times2,
                            suspicious_modules |-> flagged \cup {fullname} ],
               raised |-> TRUE ]

\* get_import_summary()['suspicious_modules']
SuspiciousModules(h) == h.suspicious_modules

TotalAttempts(h) ==
    LET RECURSIVE Sum(_)
        Sum(S) == IF S = {} THEN 0
                  ELSE LET n == CHOOSE m \in S : TRUE
                       IN  h.module_usage[n] + Sum(S \ {n})
    IN  Sum(DOMAIN h.module_usage)

-----------------------------------------------------------------------------
(* ResourceMonitor: core/security.py lines 70-203 *)

check_interval == 1
memory_growth_threshold == 15
LeakWindow == 10

Max(a, b) == IF a >= b THEN a ELSE b

\* __init__ at time t
NewResourceMonitor(t, test_mode) ==
    [ start_time        |-> t,
      max_memory        |-> 0,
      test_mode         |-> test_mode,
      memory_history    |-> << >>,
      cpu_history       |-> << >>,
      monitoring_active |-> FALSE,
      last_check_time   |-> t ]

\* What one call reads from the process: the two reads of the snapshot
\* (lines 110, 115), the memory read of check_limits (line 128), ru_utime
\* (line 133), and the psutil call that raises, if one does.
PsutilFailures == { "none", "snapshot_memory", "snapshot_cpu", "check_memory" }

\* record_usage_snapshot() at time current_time.
RecordUsageSnapshot(m, current_time, memory_mb, cpu_percent, fail) ==
    IF current_time - m.last_check_time < check_interval THEN m
    ELSE IF fail = "snapshot_memory" THEN m
    ELSE LET m1 == [ m EXCEPT
                       !.memory_history =
                           Append(@, << current_time - m.start_time, memory_mb >>),
                       !.max_memory = Max(@, memory_mb) ]
         IN  IF fail = "snapshot_cpu" THEN m1
             ELSE [ m1 EXCEPT
                      !.cpu_history =
                          Append(@, << current_time - m.start_time, cpu_percent >>),
                      !.last_check_time = current_time ]

LastN(history, n) == SubSeq(history, Len(history) - n + 1, Len(history))

\* check_for_memory_leak(): "none", "warning" (logged) or "raise".
CheckForMemoryLeak_AnyGrowth(m) ==
    IF Len(m.memory_history) >= LeakWindow
    THEN LET recent_history == LastN(m.memory_history, LeakWindow)
             start_mem == recent_history[1][2]
             end_mem   == recent_history[Len(recent_history)][2]
         IN  IF end_mem * 100 > start_mem * (100 + memory_growth_threshold)
             THEN IF m.test_mode THEN "warning"
                  ELSE IF end_mem * 10 > MAX_MEMORY_MB * 8 THEN "raise"
                  ELSE "warning"
             ELSE "none"
    ELSE "none"

CheckForMemoryLeak(m) ==
    IF Len(m.memory_history) >= LeakWindow
    THEN LET recent_history == LastN(m.memory_history, LeakWindow)
             start_mem == recent_history[1][2]
             end_mem   == recent_history[Len(recent_history)][2]
         IN  IF end_mem * 100 > start_mem * (100 + memory_growth_threshold)
             THEN LET consistent_growth ==
                          \A i \in 2..Len(recent_history) :
                              ~ (recent_history[i][2] < recent_history[i - 1][2])
                  IN  IF consistent_growth
                      THEN IF m.test_mode THEN "warning"
                           ELSE IF end_mem * 10 > MAX_MEMORY_MB * 8 THEN "raise"
                           ELSE "warning"
                      ELSE "none"
             ELSE "none"
    ELSE "none"

\* The first ceiling check_limits finds breached after its snapshot, lines
\* 127-146: "psutil" is the error of the memory read itself, "none" is a
\* normal return.  check_for_cpu_abuse, the last step, only logs.
CheckLimitsRaise_GreaterEqual(m, current_time, mem, cpu_time, fail) ==
    IF fail = "check_memory" THEN "psutil"
    ELSE IF mem >= MAX_MEMORY_MB THEN "memory"
    ELSE IF cpu_time > CpuTimeLimit THEN "cpu_time"
    ELSE IF current_time - m.start_time > Ticks(ExecutionTimeLimit) THEN "execution_time"
    ELSE IF CheckForMemoryLeak(m) = "raise" THEN "leak"
    ELSE "none"

CheckLimitsRaise_LeakFirst(m, current_time, mem, cpu_time, fail) ==
    IF fail = "check_memory" THEN "psutil"
    ELSE IF CheckForMemoryLeak(m) = "raise" THEN "leak"
    ELSE IF mem > MAX_MEMORY_MB THEN "memory"
    ELSE IF cpu_time > CpuTimeLimit THEN "cpu_time"
    ELSE IF current_time - m.start_time > Ticks(ExecutionTimeLimit) THEN "execution_time"
    ELSE "none"

CheckLimitsRaise(m, current_time, mem, cpu_time, fail) ==
    IF fail = "check_memory" THEN "psutil"
    ELSE IF mem > MAX_MEMORY_MB THEN "memory"
    ELSE IF cpu_time > CpuTimeLimit THEN "cpu_time"
    ELSE IF current_time - m.start_time > Ticks(ExecutionTimeLimit) THEN "execution_time"
    ELSE IF CheckForMemoryLeak(m) = "raise" THEN "leak"
    ELSE "none"

\* check_limits() at time current_time with the reads r.
CheckLimits(m, current_time, r) ==
    LET m1 == RecordUsageSnapshot(m, current_time, r.snap_mem, r.snap_cpu, r.fail)
    IN  [ monitor |-> m1,
          raised  |-> CheckLimitsRaise(m1, current_time, r.mem, r.cpu_time, r.fail) ]

CheckLimitsMessage(kind) ==
    CASE kind = "memory"         -> << "Memory usage exceeded limit" >>
      [] kind = "cpu_time"       -> << "CPU time exceeded limit" >>
      [] kind = "execution_time" -> << "Execution time exceeded limit" >>
      [] kind = "leak"           -> << "Potential memory leak detected" >>
      [] OTHER                   -> << "psutil error" >>

-----------------------------------------------------------------------------
(* Inputs the environment supplies *)

MemSamples == { 300, MAX_MEMORY_MB, MAX_MEMORY_MB + 1 }
CpuPercentSamples == { 50 }
CpuTimeSamples == { 1, MAX_CPU_TIME, MAX_CPU_TIME + 1, TEST_MAX_CPU_TIME + 1 }

MonReads ==
    [ snap_mem : MemSamples, snap_cpu : CpuPercentSamples, fail : PsutilFailures,
      mem : MemSamples, cpu_time : CpuTimeSamples ]

\* The reads of one check_limits call: its two memory reads, 0.1 s apart,
\* see the same resident size.
CheckReads == { r \in MonReads : r.snap_mem = r.mem /\ r.snap_cpu = 50 }

\* The reads of one guarded call.
GuardReads ==
    { r \in CheckReads : /\ r.mem # MAX_MEMORY_MB
                       /\ r.fail \in { "none", "check_memory" }
                       /\ r.cpu_time \in { 1, TEST_MAX_CPU_TIME + 1 } }

HookNames ==
    { << "pandas" >>, << "pandas", Dot, "x" >>, << "pandas", "x" >>,
      << "pandas", "_datareader" >>, << "core" >>, << "core", Dot, "config" >>,
      << "core", Dot, "config", Dot, "x" >>, << "core", Dot, "x" >>,
      << "os" >>, << "os", Dot, "path" >>, << "os", "x" >>, << "socket" >>,
      << "submit_strategies" >>, << "submit_strategies", Dot, "x" >>,
      << "time" >>, << "x" >> }

GuardNames == { << "pandas" >>, << "socket" >>, << "os" >> }
StormNames == { << "socket" >> }

Messages == { << >>, << "boom" >> }
ExceptionKinds == { "SecurityError", "Exception", "BaseException" }

NoImport == [ name |-> << >>, raised |-> FALSE, msg |-> << >> ]
NoMonOut == [ op |-> "none", raised |-> "none", mem |-> 0, cpu_time |-> 0,
              fail |-> "none", at |-> 0 ]
NoOutcome == [ kind |-> "none", msg |-> << >> ]
NoFile == [ exists |-> FALSE, code |-> << >> ]
NoVerdict == [ kind |-> "none", error |-> "none", msg |-> << >> ]
NoTree == [ lines |-> 0, functions |-> << >>, nodes |-> << >> ]
NoAnalyzer == [ analyzed |-> FALSE ]
NoGuards == << >>
NoSampling == [ loop |-> "none", owner |-> "none" ]
NoConfigManager == [ constructed |-> FALSE ]
NoConfigFile == [ exists |-> FALSE, text |-> {} ]

-----------------------------------------------------------------------------
(* Initial states *)

InitProcess ==
    /\ now = 0
    /\ meta_path = << 0 >>

\* The test profile: pytest or unittest may be loaded, and when it was loaded
\* before core.security was imported the two time limits are the relaxed ones.
InitEnv ==
    /\ pytest_loaded \in BOOLEAN
    /\ relaxed_limits \in BOOLEAN
    /\ relaxed_limits => pytest_loaded
    /\ InitProcess

InitProduction ==
    /\ pytest_loaded = FALSE
    /\ relaxed_limits = FALSE
    /\ InitProcess

InitHookIdle ==
    /\ hook = NewImportHook
    /\ denied = << >>
    /\ last_import = NoImport
    /\ attempts = << >>

InitMonIdle ==
    /\ monitor = NewResourceMonitor(0, is_test_mode)
    /\ mon_out = NoMonOut

InitGuardIdle ==
    /\ pc = "idle"
    /\ events = << >>
    /\ warnings = << >>
    /\ suspicious_activity = FALSE
    /\ callable_end = NoOutcome
    /\ result = NoOutcome

InitThreadsIdle == guards = NoGuards

InitConfigIdle ==
    /\ config_manager = NoConfigManager
    /\ config_file = NoConfigFile

InitSamplerIdle == sampling = NoSampling

InitOthersIdle ==
    /\ InitThreadsIdle
    /\ InitSamplerIdle
    /\ InitConfigIdle

InitAnalyzersIdle ==
    /\ tree = NoTree
    /\ complexity_analyzer = NoAnalyzer
    /\ data_flow_analyzer = NoAnalyzer

InitVetIdle ==
    /\ validator = "core/security.py"
    /\ source_file = NoFile
    /\ verdict = NoVerdict
    /\ verdicts = << >>
    /\ InitAnalyzersIdle

\* The process before any guarded call.
Init ==
    /\ InitEnv
    /\ inv = 0
    /\ InitHookIdle
    /\ InitMonIdle
    /\ InitGuardIdle
    /\ InitOthersIdle
    /\ InitVetIdle

\* One ImportHook constructed, not yet entered.
InitHook ==
    /\ InitProduction
    /\ inv = 1
    /\ InitHookIdle
    /\ InitMonIdle
    /\ InitGuardIdle
    /\ InitOthersIdle
    /\ InitVetIdle

-----------------------------------------------------------------------------
(* The clock *)

Tick ==
    /\ now < MaxTime
    /\ now' = now + 1
    /\ UNCHANGED << otherVars, envVars, vetVars, meta_path, inv, hookVars, monVars, guardVars >>

\* The running code is busy for a whole execution-time limit.
Stall ==
    /\ now <= MaxTime
    /\ pc = "running"
    /\ now' = now + Ticks(ExecutionTimeLimit)
    /\ UNCHANGED << otherVars, envVars, vetVars, meta_path, inv, hookVars, monVars, guardVars >>

-----------------------------------------------------------------------------
(* ImportHook operations *)

Installed == InList(meta_path, inv)

CountDenial(d, fullname) ==
    (fullname :> (IF fullname \in DOMAIN d THEN d[fullname] ELSE 0) + 1) @@ d

\* One import attempt reaching the hook: find_module(fullname).
ImportAttempt(fullname) ==
    LET r == FindModule(hook, fullname, now)
    IN  /\ hook' = r.hook
        /\ denied' = IF r.raised THEN CountDenial(denied, fullname) ELSE denied
        /\ last_import' = [ name |-> fullname, raised |-> r.raised,
                            msg |-> IF r.raised THEN ImportErrorMessage(fullname)
                                    ELSE << >> ]
        /\ attempts' = Append(attempts, << fullname, now >>)

HookEnter ==
    /\ ~ Installed
    /\ meta_path' = HookEnterPath(meta_path, inv)
    /\ UNCHANGED << otherVars, now, envVars, vetVars, inv, hookVars, monVars, guardVars >>

HookExit ==
    /\ Installed
    /\ meta_path' = HookExitPath(meta_path, inv)
    /\ UNCHANGED << otherVars, now, envVars, vetVars, inv, hookVars, monVars, guardVars >>

HookImport(fullname, budget) ==
    /\ Installed
    /\ TotalAttempts(hook) < budget
    /\ ImportAttempt(fullname)
    /\ UNCHANGED << otherVars, now, envVars, vetVars, meta_path, inv, monVars, guardVars >>

NextHook ==
    \/ Tick
    \/ HookEnter
    \/ HookExit
    \/ \E fullname \in HookNames : HookImport(fullname, MaxHookImports)

NextStorm ==
    \/ Tick
    \/ HookEnter
    \/ HookExit
    \/ \E fullname \in StormNames : HookImport(fullname, MaxStormImports)

SpecHook == InitHook /\ [][NextHook]_vars
SpecStorm == InitHook /\ [][NextStorm]_vars

-----------------------------------------------------------------------------
(* StrategySecurity.secure_strategy: core/security.py lines 955-1042 *)

\* log_security_event(event_type, details), lines 970-980, on the context
\* c = [events, warnings, suspicious_activity].
LogSecurityEvent(c, event_type, details) ==
    [ events   |-> Append(c.events, event_type),
      warnings |-> IF event_type = "warning" THEN Append(c.warnings, details)
                   ELSE c.warnings,
      suspicious_activity |->
          IF event_type = "violation" THEN TRUE ELSE c.suspicious_activity ]

WrapMessage(msg) == << "Strategy execution failed: " >> \o msg

\* The except clauses, lines 1023-1030: the context and what the wrapper
\* raises when exception exc leaves the with block.
WrapperExcept_Reraise(c, exc) ==
    IF exc.kind = "SecurityError"
    THEN [ context |-> LogSecurityEvent(c, "violation", exc.msg),
           result  |-> [ kind |-> "SecurityError", msg |-> exc.msg ] ]
    ELSE IF exc.kind = "Exception"
    THEN [ context |-> LogSecurityEvent(c, "error", exc.msg),
           result  |-> [ kind |-> "Exception", msg |-> exc.msg ] ]
    ELSE [ context |-> c,
           result  |-> [ kind |-> exc.kind, msg |-> exc.msg ] ]

WrapperExcept(c, exc) ==
    IF exc.kind = "SecurityError"
    THEN [ context |-> LogSecurityEvent(c, "violation", exc.msg),
           result  |-> [ kind |-> "SecurityError", msg |-> exc.msg ] ]
    ELSE IF exc.kind = "Exception"
    THEN [ context |-> LogSecurityEvent(c, "error", exc.msg),
           result  |-> [ kind |-> "SecurityError", msg |-> WrapMessage(exc.msg) ] ]
    ELSE [ context |-> c,
           result  |-> [ kind |-> exc.kind, msg |-> exc.msg ] ]

\* The body of the with block after the callable returned, lines 997-1022:
\* the context, and the exception that leaves the block (kind "none": the
\* block returns the result).
WrapperAfterCall_NoUsageEvent(c, h, limits_raised, summary_fails) ==
    IF limits_raised = "psutil"
    THEN [ context |-> c, exc |-> [ kind |-> "Exception", msg |-> << "psutil error" >> ] ]
    ELSE IF limits_raised # "none"
    THEN [ context |-> c,
           exc |-> [ kind |-> "SecurityError", msg |-> CheckLimitsMessage(limits_raised) ] ]
    ELSE LET c1 == IF SuspiciousModules(h) # {}
                   THEN LogSecurityEvent(c, "warning", SuspiciousModules(h))
                   ELSE c
         IN  IF summary_fails
             THEN [ context |-> c1,
                    exc |-> [ kind |-> "Exception", msg |-> << "psutil error" >> ] ]
             ELSE [ context |-> LogSecurityEvent(c1, "complete", << >>),
                    exc |-> NoOutcome ]

WrapperAfterCall(c, h, limits_raised, summary_fails) ==
    IF limits_raised = "psutil"
    THEN [ context |-> c, exc |-> [ kind |-> "Exception", msg |-> << "psutil error" >> ] ]
    ELSE IF limits_raised # "none"
    THEN [ context |-> c,
           exc |-> [ kind |-> "SecurityError", msg |-> CheckLimitsMessage(limits_raised) ] ]
    ELSE LET c1 == IF SuspiciousModules(h) # {}
                   THEN LogSecurityEvent(c, "warning", SuspiciousModules(h))
                   ELSE c
         IN  IF summary_fails
             THEN [ context |-> c1,
                    exc |-> [ kind |-> "Exception", msg |-> << "psutil error" >> ] ]
             ELSE [ context |->
                        LogSecurityEvent(
                            LogSecurityEvent(c1, "resource_usage", << >>),
                            "complete", << >>),
                    exc |-> NoOutcome ]

\* The finally clause, lines 1031-1034.
WrapperFinally(m) == [ m EXCEPT !.monitoring_active = FALSE ]

Context == [ events |-> events, warnings |-> warnings,
             suspicious_activity |-> suspicious_activity ]

SetContext(c) ==
    /\ events' = c.events
    /\ warnings' = c.warnings
    /\ suspicious_activity' = c.suspicious_activity

\* wrapper(*args) up to the call of func: the context is created, the hook
\* is entered, 'start' is logged.
WrapperCall ==
    /\ pc # "running"
    /\ inv < MaxInvocations
    /\ inv' = inv + 1
    /\ monitor' = NewResourceMonitor(now, is_test_mode)
    /\ mon_out' = NoMonOut
    /\ hook' = NewImportHook
    /\ denied' = << >>
    /\ last_import' = NoImport
    /\ attempts' = << >>
    /\ meta_path' = HookEnterPath(meta_path, inv')
    /\ SetContext(LogSecurityEvent(
           [ events |-> << >>, warnings |-> << >>, suspicious_activity |-> FALSE ],
           "start", << >>))
    /\ callable_end' = NoOutcome
    /\ result' = NoOutcome
    /\ pc' = "running"
    /\ UNCHANGED << otherVars, now, envVars, vetVars >>

\* An exception leaves the with block: __exit__, the except clauses, finally.
WrapperUnwind(c, exc, m) ==
    LET x == WrapperExcept(c, exc)
    IN  /\ meta_path' = HookExitPath(meta_path, inv)
        /\ SetContext(x.context)
        /\ result' = x.result
        /\ monitor' = WrapperFinally(m)
        /\ pc' = "raised"

\* The guarded callable imports a module; it may catch what find_module raises.
CallableImport(fullname, caught) ==
    /\ pc = "running"
    /\ TotalAttempts(hook) < MaxImports
    /\ ImportAttempt(fullname)
    /\ IF last_import'.raised /\ ~ caught
       THEN /\ callable_end' = [ kind |-> "SecurityError", msg |-> last_import'.msg ]
            /\ WrapperUnwind(Context, callable_end', monitor)
            /\ UNCHANGED << mon_out >>
       ELSE UNCHANGED << meta_path, monVars, guardVars >>
    /\ UNCHANGED << otherVars, now, envVars, vetVars, inv >>

\* The guarded callable raises.
CallableRaises(kind, msg) ==
    /\ pc = "running"
    /\ callable_end' = [ kind |-> kind, msg |-> msg ]
    /\ WrapperUnwind(Context, callable_end', monitor)
    /\ UNCHANGED << otherVars, now, envVars, vetVars, inv, hookVars, mon_out >>

\* The guarded callable returns: check_limits, the summaries, 'complete'.
CallableReturns(r, summary_fails) ==
    /\ pc = "running"
    /\ callable_end' = [ kind |-> "returned", msg |-> << >> ]
    /\ LET cl == CheckLimits(monitor, now, r)
           a  == WrapperAfterCall(Context, hook, cl.raised, summary_fails)
       IN  /\ mon_out' = [ op |-> "check_limits", raised |-> cl.raised, mem |-> r.mem,
                           cpu_time |-> r.cpu_time, fail |-> r.fail, at |-> now ]
           /\ IF a.exc.kind = "none"
              THEN /\ meta_path' = HookExitPath(meta_path, inv)
                   /\ SetContext(a.context)
                   /\ result' = [ kind |-> "value", msg |-> << >> ]
                   /\ monitor' = WrapperFinally(cl.monitor)
                   /\ pc' = "returned"
              ELSE WrapperUnwind(a.context, a.exc, cl.monitor)
    /\ UNCHANGED << otherVars, now, envVars, vetVars, inv, hookVars >>

Next ==
    \/ Tick
    \/ Stall
    \/ WrapperCall
    \/ \E fullname \in GuardNames, caught \in BOOLEAN : CallableImport(fullname, caught)
    \/ \E kind \in ExceptionKinds, msg \in Messages : CallableRaises(kind, msg)
    \/ \E r \in GuardReads, summary_fails \in BOOLEAN : CallableReturns(r, summary_fails)

Spec == Init /\ [][Next]_vars

-----------------------------------------------------------------------------
(* A ResourceMonitor driven directly *)

InitMon ==
    /\ InitEnv
    /\ inv = 1
    /\ InitHookIdle
    /\ InitMonIdle
    /\ InitGuardIdle
    /\ InitOthersIdle
    /\ InitVetIdle

MonTick ==
    /\ now < MaxTime
    /\ now' = now + 1
    /\ UNCHANGED << otherVars, envVars, vetVars, meta_path, inv, hookVars, monVars, guardVars >>

\* Nothing samples the process for a whole execution-time limit.
MonStall ==
    /\ now <= MaxTime
    /\ now' = now + Ticks(ExecutionTimeLimit)
    /\ UNCHANGED << otherVars, envVars, vetVars, meta_path, inv, hookVars, monVars, guardVars >>

MonRecord(memory_mb, cpu_percent, fail) ==
    /\ Len(monitor.memory_history) < MaxSamples
    /\ monitor' = RecordUsageSnapshot(monitor, now, memory_mb, cpu_percent, fail)
    /\ mon_out' = [ op |-> "record_usage_snapshot", raised |-> "none", mem |-> memory_mb,
                    cpu_time |-> 0, fail |-> fail, at |-> now ]
    /\ UNCHANGED << otherVars, now, envVars, vetVars, meta_path, inv, hookVars, guardVars >>

MonCheckLimits(r) ==
    /\ Len(monitor.memory_history) < MaxSamples
    /\ LET cl == CheckLimits(monitor, now, r)
       IN  /\ monitor' = cl.monitor
           /\ mon_out' = [ op |-> "check_limits", raised |-> cl.raised, mem |-> r.mem,
                           cpu_time |-> r.cpu_time, fail |-> r.fail, at |-> now ]
    /\ UNCHANGED << otherVars, now, envVars, vetVars, meta_path, inv, hookVars, guardVars >>

NextMon ==
    \/ MonTick
    \/ MonStall
    \/ \E memory_mb \in MemSamples, cpu_percent \in CpuPercentSamples,
          fail \in { "none", "snapshot_memory", "snapshot_cpu" } :
          MonRecord(memory_mb, cpu_percent, fail)
    \/ \E r \in CheckReads : MonCheckLimits(r)

SpecMon == InitMon /\ [][NextMon]_vars

-----------------------------------------------------------------------------
(* check_for_memory_leak on histories of up to MaxLeakSamples samples *)

\* Resident sizes around the two thresholds: 345 is 300 plus exactly 15 %,
\* 0.8 * MAX_MEMORY_MB lies between 409 and 410.
LeakLevels == { 300, 345, 409, 410 }

\* The monitor m after record_usage_snapshot() ran once per tick from time t
\* on and read the resident sizes in values.
RECURSIVE SampledMonitor(_, _, _)
SampledMonitor(m, values, t) ==
    IF values = << >> THEN m
    ELSE SampledMonitor(RecordUsageSnapshot(m, t, Head(values), 50, "none"),
                        Tail(values), t + 1)

\* A monitor that took one sample per tick while the process moved between
\* two resident sizes.
InitLeak ==
    /\ pytest_loaded \in BOOLEAN
    /\ relaxed_limits = pytest_loaded
    /\ meta_path = << 0 >>
    /\ inv = 1
    /\ InitHookIdle
    /\ InitGuardIdle
    /\ InitOthersIdle
    /\ InitVetIdle
    /\ \E n \in 0..MaxLeakSamples, lo \in LeakLevels, hi \in LeakLevels :
          /\ lo <= hi
          /\ now = n
          /\ \E f \in [ 1..n -> { lo, hi } ] :
                monitor = SampledMonitor(NewResourceMonitor(0, is_test_mode), f, 1)
    /\ mon_out = NoMonOut

LeakCheck ==
    /\ mon_out.op = "none"
    /\ mon_out' = [ op |-> "check_for_memory_leak", raised |-> CheckForMemoryLeak(monitor),
                    mem |-> 0, cpu_time |-> 0, fail |-> "none", at |-> now ]
    /\ UNCHANGED << otherVars, now, envVars, vetVars, meta_path, inv, hookVars, monitor, guardVars >>

NextLeak == LeakCheck

SpecLeak == InitLeak /\ [][NextLeak]_vars

-----------------------------------------------------------------------------
(* Static vetting: validate_strategy_file, StrategySecurity.analyze_ast,     *)
(* ComplexityAnalyzer, DataFlowAnalyzer                                      *)

ALLOWED_OS_FUNCTIONS ==
    { "os.path.join", "os.path.exists", "os.path.abspath", "os.path.dirname",
      "os.makedirs", "os.path.isfile", "os.path.isdir", "os.path.getsize" }

MAX_CYCLOMATIC_COMPLEXITY == 25
MAX_NESTED_DEPTH == 6
MAX_FUNCTION_COMPLEXITY == 120
MAX_MODULE_COMPLEXITY == 500

\* The two definitions of validate_strategy_file: the one of the module
\* core/security.py and the one of the package core/security (utils.py).
Validators == { "core/security.py", "core/security/utils.py" }

\* dangerous_patterns of core/security.py, in order.
security_py_patterns ==
    << "subprocess\\.",
       "sys\\.(exit|_exit|path|argv)",
       "socket\\.",
       "eval\\s*\\(",
       "exec\\s*\\(",
       "os\\.system\\(",
       "import\\s+subprocess",
       "import\\s+sys",
       "import\\s+socket",
       "import\\s+pickle",
       "import\\s+marshal",
       "__import__\\s*\\(",
       "getattr\\s*\\(.+?,\\s*[\\'\"]__",
       "globals\\(\\)",
       "locals\\(\\)",
       "compile\\s*\\(",
       "code\\s*\\..+?exec",
       "importlib",
       "open\\s*\\(.+?,\\s*[\\'\"]w",
       "shutil\\.",
       "os\\.path\\.expanduser\\(",
       "os\\.environ" >>

\* dangerous_patterns of core/security/utils.py, in order.
utils_py_patterns ==
    << "subprocess\\.",
       "sys\\.(exit|_exit|path|argv)",
       "socket\\.",
       "eval\\s*\\(",
       "exec\\s*\\(",
       "os\\.system\\(",
       "import\\s+subprocess",
       "import\\s+sys",
       "import\\s+socket",
       "import\\s+pickle",
       "import\\s+marshal",
       "import\\s+requests",
       "requests\\.",
       "urllib\\.",
       "http\\.",
       "__import__\\s*\\(",
       "getattr\\s*\\(.+?,\\s*[\\'\"]__",
       "globals\\(\\)",
       "locals\\(\\)",
       "compile\\s*\\(",
       "code\\s*\\..+?exec",
       "importlib",
       "open\\s*\\(",
       "with\\s+open\\s*\\(",
       "\\.write\\s*\\(",
       "\\.writelines\\s*\\(",
       "io\\.",
       "pathlib\\.",
       "os\\.makedirs",
       "os\\.mkdir",
       "os\\.path\\.abspath",
       "os\\.path\\.dirname",
       "os\\.path\\.isfile",
       "os\\.path\\.isdir",
       "os\\.path\\.getsize",
       "shutil\\.",
       "os\\.path\\.expanduser\\(",
       "os\\.environ" >>

\* A function body as ast.parse gives it: a sequence of statements, each with
\* its kind ("simple" for a statement without a block), the number of extra
\* operands of `and` in its own expressions, the statements of its block and
\* the statements of its else / except / finally blocks.  times > 1 stands for
\* that many copies of the statement in a row.
Stmt(kind, times, and_operands, body, orelse) ==
    [ kind |-> kind, times |-> times, and_operands |-> and_operands,
      body |-> body, orelse |-> orelse ]

\* A While statement whose test is the constant test ("True" or "1"), and a
\* Break statement.  A While built by Stmt has a test that is no constant.
While(test, body, orelse) == [ test |-> test ] @@ Stmt("while", 1, 0, body, orelse)
Break == Stmt("break", 1, 0, << >>, << >>)

\* sum(1 for _ in ast.walk(...) if isinstance(_, ast.stmt)) below a block
RECURSIVE StmtNodes(_)
StmtNodes(stmts) ==
    IF stmts = << >> THEN 0
    ELSE LET s == Head(stmts)
         IN  s.times * (1 + StmtNodes(s.body) + StmtNodes(s.orelse)) + StmtNodes(Tail(stmts))

\* the If, While, For and Try nodes below a block
RECURSIVE BranchNodes(_)
BranchNodes(stmts) ==
    IF stmts = << >> THEN 0
    ELSE LET s == Head(stmts)
             own == IF s.kind \in { "if", "while", "for", "try" } THEN 1 ELSE 0
         IN  s.times * (own + BranchNodes(s.body) + BranchNodes(s.orelse))
                 + BranchNodes(Tail(stmts))

\* len(subnode.values) - 1, summed over the BoolOp nodes with op And
RECURSIVE AndOperands(_)
AndOperands(stmts) ==
    IF stmts = << >> THEN 0
    ELSE LET s == Head(stmts)
         IN  s.times * (s.and_operands + AndOperands(s.body) + AndOperands(s.orelse))
                 + AndOperands(Tail(stmts))

\* _get_depth over the statements of a block entered at current_depth
RECURSIVE GetDepth(_, _)
GetDepth(stmts, current_depth) ==
    IF stmts = << >> THEN current_depth
    ELSE LET s == Head(stmts)
             d == IF s.kind \in { "if", "for", "while", "with", "try" }
                  THEN current_depth + 1 ELSE current_depth
         IN  Max(Max(GetDepth(s.body, d), GetDepth(s.orelse, d)),
                 GetDepth(Tail(stmts), current_depth))

\* Expressions (ast.expr).  operands and keywords hold the child expressions
\* _extract_variables_from_expr (lines 633-654) may follow, in source order;
\* rest holds the child expressions it never looks at.
Expr(type, id, operands, keywords, rest) ==
    [ type |-> type, id |-> id, operands |-> operands, keywords |-> keywords, rest |-> rest ]

Name(id) == Expr("Name", id, << >>, << >>, << >>)
Constant == Expr("Constant", "", << >>, << >>, << >>)
BinOp(left, right) == Expr("BinOp", "", << left, right >>, << >>, << >>)
UnaryOp(operand) == Expr("UnaryOp", "", << operand >>, << >>, << >>)
\* func is the class of node.func, id its id or attr; rest holds the receiver
\* of a method call.
Call(func, id, args, keywords, rest) ==
    [ func |-> func ] @@ Expr("Call", id, args, keywords, rest)
Subscript(value, slice) == Expr("Subscript", "", << value >>, << >>, << slice >>)
List(elts) == Expr("List", "", elts, << >>, << >>)
Tuple(elts) == Expr("Tuple", "", elts, << >>, << >>)
Attribute(value, attr) == Expr("Attribute", attr, << >>, << >>, << value >>)
Compare(operands) == Expr("Compare", "", << >>, << >>, operands)
BoolOp(values) == Expr("BoolOp", "", << >>, << >>, values)

\* Pieces of strategy source, each a run of whole lines.  For each piece:
\* what str.splitlines, len, the file system, ast.parse and re.search find in
\* it.  nodes lists, in the order of ast.walk, the nodes the analyses look
\* at: nid is the place of the node in ast.walk of the piece, depth its depth
\* below the Module node, inside the If and While nodes it lies in.  targets
\* are the ast.Name targets of an assignment, unpacked the names in its tuple
\* targets.  functions lists the FunctionDef nodes with their bodies; matches
\* holds the dangerous_patterns entries re.search finds.
Fragment ==
    "import pandas as pd" :>
      [ lines |-> 1, width |-> 19, bytes |-> 20, syntax_error |-> FALSE,
        matches |-> {},
        os_uses |-> {},
        functions |-> << >>,
        nodes |-> << [ nid |-> 1, depth |-> 1, inside |-> {}, type |-> "Import",
                       names |-> << << "pandas" >> >> ] >> ] @@
    "import socket" :>
      [ lines |-> 1, width |-> 13, bytes |-> 14, syntax_error |-> FALSE,
        matches |-> {"import\\s+socket"},
        os_uses |-> {},
        functions |-> << >>,
        nodes |-> << [ nid |-> 1, depth |-> 1, inside |-> {}, type |-> "Import",
                       names |-> << << "socket" >> >> ] >> ] @@
    "import json" :>
      [ lines |-> 1, width |-> 11, bytes |-> 12, syntax_error |-> FALSE,
        matches |-> {},
        os_uses |-> {},
        functions |-> << >>,
        nodes |-> << [ nid |-> 1, depth |-> 1, inside |-> {}, type |-> "Import",
                       names |-> << << "json" >> >> ] >> ] @@
    "import os" :>
      [ lines |-> 1, width |-> 9, bytes |-> 10, syntax_error |-> FALSE,
        matches |-> {},
        os_uses |-> {},
        functions |-> << >>,
        nodes |-> << [ nid |-> 1, depth |-> 1, inside |-> {}, type |-> "Import",
                       names |-> << << "os" >> >> ] >> ] @@
    "from . import helpers" :>
      [ lines |-> 1, width |-> 21, bytes |-> 22, syntax_error |-> FALSE,
        matches |-> {},
        os_uses |-> {},
        functions |-> << >>,
        nodes |-> << [ nid |-> 1, depth |-> 1, inside |-> {}, type |-> "ImportFrom",
                       module_is_none |-> TRUE, module |-> << >> ] >> ] @@
    "from core.config import BACKTEST_START" :>
      [ lines |-> 1, width |-> 38, bytes |-> 39, syntax_error |-> FALSE,
        matches |-> {},
        os_uses |-> {},
        functions |-> << >>,
        nodes |-> << [ nid |-> 1, depth |-> 1, inside |-> {}, type |-> "ImportFrom",
                       module_is_none |-> FALSE, module |-> << "core", Dot, "config" >> ] >> ] @@
    "x = eval(y)" :>
      [ lines |-> 1, width |-> 11, bytes |-> 12, syntax_error |-> FALSE,
        matches |-> {"eval\\s*\\("},
        os_uses |-> {},
        functions |-> << >>,
        nodes |-> << [ nid |-> 1, depth |-> 1, inside |-> {}, type |-> "Assign",
                       targets |-> << "x" >>, unpacked |-> {},
                       value |-> Call("Name", "eval", << Name("y") >>, << >>, << >>) ],
                     [ nid |-> 3, depth |-> 2, inside |-> {}, type |-> "Call",
                       func |-> "Name", id |-> "eval", os_function |-> "",
                       args |-> << Name("y") >>, keywords |-> << >> ] >> ] @@
    "# never call eval(x) here" :>
      [ lines |-> 1, width |-> 25, bytes |-> 26, syntax_error |-> FALSE,
        matches |-> {"eval\\s*\\("},
        os_uses |-> {},
        functions |-> << >>,
        nodes |-> << >> ] @@
    "p = os.path.join(a, b)" :>
      [ lines |-> 1, width |-> 22, bytes |-> 23, syntax_error |-> FALSE,
        matches |-> {},
        os_uses |-> {"os.path.join"},
        functions |-> << >>,
        nodes |-> << [ nid |-> 1, depth |-> 1, inside |-> {}, type |-> "Assign",
                       targets |-> << "p" >>, unpacked |-> {},
                       value |-> Call("Attribute", "join", << Name("a"), Name("b") >>, << >>,
                         << Attribute(Name("os"), "path") >>) ],
                     [ nid |-> 3, depth |-> 2, inside |-> {}, type |-> "Call",
                       func |-> "Attribute", id |-> "join", os_function |-> "os.path.join",
                       args |-> << Name("a"), Name("b") >>, keywords |-> << >> ],
                     [ nid |-> 8, depth |-> 4, inside |-> {}, type |-> "Attribute",
                       value_id |-> "os", attr |-> "path" ] >> ] @@
    "p = os.path.abspath(a)" :>
      [ lines |-> 1, width |-> 22, bytes |-> 23, syntax_error |-> FALSE,
        matches |-> {"os\\.path\\.abspath"},
        os_uses |-> {"os.path.abspath"},
        functions |-> << >>,
        nodes |-> << [ nid |-> 1, depth |-> 1, inside |-> {}, type |-> "Assign",
                       targets |-> << "p" >>, unpacked |-> {},
                       value |-> Call("Attribute", "abspath", << Name("a") >>, << >>,
                         << Attribute(Name("os"), "path") >>) ],
                     [ nid |-> 3, depth |-> 2, inside |-> {}, type |-> "Call",
                       func |-> "Attribute", id |-> "abspath", os_function |-> "os.path.abspath",
                       args |-> << Name("a") >>, keywords |-> << >> ],
                     [ nid |-> 7, depth |-> 4, inside |-> {}, type |-> "Attribute",
                       value_id |-> "os", attr |-> "path" ] >> ] @@
    "os.makedirs(p)" :>
      [ lines |-> 1, width |-> 14, bytes |-> 15, syntax_error |-> FALSE,
        matches |-> {"os\\.makedirs"},
        os_uses |-> {"os.makedirs"},
        functions |-> << >>,
        nodes |-> << [ nid |-> 2, depth |-> 2, inside |-> {}, type |-> "Call",
                       func |-> "Attribute", id |-> "makedirs", os_function |-> "os.makedirs",
                       args |-> << Name("p") >>, keywords |-> << >> ],
                     [ nid |-> 3, depth |-> 3, inside |-> {}, type |-> "Attribute",
                       value_id |-> "os", attr |-> "makedirs" ] >> ] @@
    "d = os.getcwd()" :>
      [ lines |-> 1, width |-> 15, bytes |-> 16, syntax_error |-> FALSE,
        matches |-> {},
        os_uses |-> {"os.getcwd"},
        functions |-> << >>,
        nodes |-> << [ nid |-> 1, depth |-> 1, inside |-> {}, type |-> "Assign",
                       targets |-> << "d" >>, unpacked |-> {},
                       value |-> Call("Attribute", "getcwd", << >>, << >>, << Name("os") >>) ],
                     [ nid |-> 3, depth |-> 2, inside |-> {}, type |-> "Call",
                       func |-> "Attribute", id |-> "getcwd", os_function |-> "os.getcwd",
                       args |-> << >>, keywords |-> << >> ],
                     [ nid |-> 5, depth |-> 3, inside |-> {}, type |-> "Attribute",
                       value_id |-> "os", attr |-> "getcwd" ] >> ] @@
    "sep = os.sep" :>
      [ lines |-> 1, width |-> 12, bytes |-> 13, syntax_error |-> FALSE,
        matches |-> {},
        os_uses |-> {"os.sep"},
        functions |-> << >>,
        nodes |-> << [ nid |-> 1, depth |-> 1, inside |-> {}, type |-> "Assign",
                       targets |-> << "sep" >>, unpacked |-> {},
                       value |-> Attribute(Name("os"), "sep") ],
                     [ nid |-> 3, depth |-> 2, inside |-> {}, type |-> "Attribute",
                       value_id |-> "os", attr |-> "sep" ] >> ] @@
    "def f(): 3 statements" :>
      [ lines |-> 4, width |-> 12, bytes |-> 42, syntax_error |-> FALSE,
        matches |-> {},
        os_uses |-> {},
        functions |-> << [ name |-> "f", body |-> << Stmt("simple", 3, 0, << >>, << >>) >> ] >>,
        nodes |-> << [ nid |-> 3, depth |-> 2, inside |-> {}, type |-> "Assign",
                       targets |-> << "a" >>, unpacked |-> {},
                       value |-> Constant ],
                     [ nid |-> 4, depth |-> 2, inside |-> {}, type |-> "Assign",
                       targets |-> << "b" >>, unpacked |-> {},
                       value |-> Constant ] >> ] @@
    "def f(): 119 statements" :>
      [ lines |-> 120, width |-> 8, bytes |-> 1080, syntax_error |-> FALSE,
        matches |-> {},
        os_uses |-> {},
        functions |-> << [ name |-> "f", body |-> << Stmt("simple", 119, 0, << >>, << >>) >> ] >>,
        nodes |-> << >> ] @@
    "def f(): 120 statements" :>
      [ lines |-> 121, width |-> 8, bytes |-> 1089, syntax_error |-> FALSE,
        matches |-> {},
        os_uses |-> {},
        functions |-> << [ name |-> "f", body |-> << Stmt("simple", 120, 0, << >>, << >>) >> ] >>,
        nodes |-> << >> ] @@
    "def f(): 25 ifs" :>
      [ lines |-> 51, width |-> 12, bytes |-> 584, syntax_error |-> FALSE,
        matches |-> {},
        os_uses |-> {},
        functions |-> << [ name |-> "f", body |-> << Stmt("if", 25, 0, << Stmt("simple", 1, 0,
          << >>, << >>) >>, << >>) >> ] >>,
        nodes |-> << [ nid |-> 3, depth |-> 2, inside |-> {}, type |-> "If",
                       test |-> Name("a") ],
                     [ nid |-> 4, depth |-> 2, inside |-> {}, type |-> "If",
                       test |-> Name("a") ],
                     [ nid |-> 5, depth |-> 2, inside |-> {}, type |-> "If",
                       test |-> Name("a") ],
                     [ nid |-> 6, depth |-> 2, inside |-> {}, type |-> "If",
                       test |-> Name("a") ],
                     [ nid |-> 7, depth |-> 2, inside |-> {}, type |-> "If",
                       test |-> Name("a") ],
                     [ nid |-> 8, depth |-> 2, inside |-> {}, type |-> "If",
                       test |-> Name("a") ],
                     [ nid |-> 9, depth |-> 2, inside |-> {}, type |-> "If",
                       test |-> Name("a") ],
                     [ nid |-> 10, depth |-> 2, inside |-> {}, type |-> "If",
                       test |-> Name("a") ],
                     [ nid |-> 11, depth |-> 2, inside |-> {}, type |-> "If",
                       test |-> Name("a") ],
                     [ nid |-> 12, depth |-> 2, inside |-> {}, type |-> "If",
                       test |-> Name("a") ],
                     [ nid |-> 13, depth |-> 2, inside |-> {}, type |-> "If",
                       test |-> Name("a") ],
                     [ nid |-> 14, depth |-> 2, inside |-> {}, type |-> "If",
                       test |-> Name("a") ],
                     [ nid |-> 15, depth |-> 2, inside |-> {}, type |-> "If",
                       test |-> Name("a") ],
                     [ nid |-> 16, depth |-> 2, inside |-> {}, type |-> "If",
                       test |-> Name("a") ],
                     [ nid |-> 17, depth |-> 2, inside |-> {}, type |-> "If",
                       test |-> Name("a") ],
                     [ nid |-> 18, depth |-> 2, inside |-> {}, type |-> "If",
                       test |-> Name("a") ],
                     [ nid |-> 19, depth |-> 2, inside |-> {}, type |-> "If",
                       test |-> Name("a") ],
                     [ nid |-> 20, depth |-> 2, inside |-> {}, type |-> "If",
                       test |-> Name("a") ],
                     [ nid |-> 21, depth |-> 2, inside |-> {}, type |-> "If",
                       test |-> Name("a") ],
                     [ nid |-> 22, depth |-> 2, inside |-> {}, type |-> "If",
                       test |-> Name("a") ],
                     [ nid |-> 23, depth |-> 2, inside |-> {}, type |-> "If",
                       test |-> Name("a") ],
                     [ nid |-> 24, depth |-> 2, inside |-> {}, type |-> "If",
                       test |-> Name("a") ],
                     [ nid |-> 25, depth |-> 2, inside |-> {}, type |-> "If",
                       test |-> Name("a") ],
                     [ nid |-> 26, depth |-> 2, inside |-> {}, type |-> "If",
                       test |-> Name("a") ],
                     [ nid |-> 27, depth |-> 2, inside |-> {}, type |-> "If",
                       test |-> Name("a") ] >> ] @@
    "def f(): if with 26 and-operands" :>
      [ lines |-> 3, width |-> 159, bytes |-> 182, syntax_error |-> FALSE,
        matches |-> {},
        os_uses |-> {},
        functions |-> << [ name |-> "f", body |-> << Stmt("if", 1, 25, << Stmt("simple", 1, 0,
          << >>, << >>) >>, << >>) >> ] >>,
        nodes |-> << [ nid |-> 3, depth |-> 2, inside |-> {}, type |-> "If",
                       test |-> BoolOp(<< Name("a"), Name("a"), Name("a"), Name("a"), Name("a"),
                         Name("a"), Name("a"), Name("a"), Name("a"), Name("a"), Name("a"),
                         Name("a"), Name("a"), Name("a"), Name("a"), Name("a"), Name("a"),
                         Name("a"), Name("a"), Name("a"), Name("a"), Name("a"), Name("a"),
                         Name("a"), Name("a"), Name("a") >>) ] >> ] @@
    "def f(): 7 nested ifs" :>
      [ lines |-> 9, width |-> 36, bytes |-> 200, syntax_error |-> FALSE,
        matches |-> {},
        os_uses |-> {},
        functions |-> << [ name |-> "f", body |-> << Stmt("if", 1, 0, << Stmt("if", 1, 0,
          << Stmt("if", 1, 0, << Stmt("if", 1, 0, << Stmt("if", 1, 0, << Stmt("if", 1, 0,
          << Stmt("if", 1, 0, << Stmt("simple", 1, 0, << >>, << >>) >>, << >>) >>, << >>) >>,
          << >>) >>, << >>) >>, << >>) >>, << >>) >>, << >>) >> ] >>,
        nodes |-> << [ nid |-> 3, depth |-> 2, inside |-> {}, type |-> "If",
                       test |-> Name("a") ],
                     [ nid |-> 5, depth |-> 3, inside |-> {3}, type |-> "If",
                       test |-> Name("a") ],
                     [ nid |-> 8, depth |-> 4, inside |-> {3, 5}, type |-> "If",
                       test |-> Name("a") ],
                     [ nid |-> 10, depth |-> 5, inside |-> {3, 5, 8}, type |-> "If",
                       test |-> Name("a") ],
                     [ nid |-> 12, depth |-> 6, inside |-> {3, 5, 8, 10}, type |-> "If",
                       test |-> Name("a") ],
                     [ nid |-> 14, depth |-> 7, inside |-> {3, 5, 8, 10, 12}, type |-> "If",
                       test |-> Name("a") ],
                     [ nid |-> 16, depth |-> 8, inside |-> {3, 5, 8, 10, 12, 14}, type |-> "If",
                       test |-> Name("a") ] >> ] @@
    "500 comment lines" :>
      [ lines |-> 500, width |-> 6, bytes |-> 3500, syntax_error |-> FALSE,
        matches |-> {},
        os_uses |-> {},
        functions |-> << >>,
        nodes |-> << >> ] @@
    "line of 800 characters" :>
      [ lines |-> 1, width |-> 800, bytes |-> 801, syntax_error |-> FALSE,
        matches |-> {},
        os_uses |-> {},
        functions |-> << >>,
        nodes |-> << [ nid |-> 1, depth |-> 1, inside |-> {}, type |-> "Assign",
                       targets |-> << "s" >>, unpacked |-> {},
                       value |-> Constant ] >> ] @@
    "line of 801 characters" :>
      [ lines |-> 1, width |-> 801, bytes |-> 802, syntax_error |-> FALSE,
        matches |-> {},
        os_uses |-> {},
        functions |-> << >>,
        nodes |-> << [ nid |-> 1, depth |-> 1, inside |-> {}, type |-> "Assign",
                       targets |-> << "s" >>, unpacked |-> {},
                       value |-> Constant ] >> ] @@
    "def broken(:" :>
      [ lines |-> 1, width |-> 12, bytes |-> 13, syntax_error |-> TRUE,
        matches |-> {},
        os_uses |-> {},
        functions |-> << >>,
        nodes |-> << >> ] @@
    "x = feed.fetch()" :>
      [ lines |-> 1, width |-> 16, bytes |-> 17, syntax_error |-> FALSE,
        matches |-> {},
        os_uses |-> {},
        functions |-> << >>,
        nodes |-> << [ nid |-> 1, depth |-> 1, inside |-> {}, type |-> "Assign",
                       targets |-> << "x" >>, unpacked |-> {},
                       value |-> Call("Attribute", "fetch", << >>, << >>, << Name("feed") >>) ],
                     [ nid |-> 3, depth |-> 2, inside |-> {}, type |-> "Call",
                       func |-> "Attribute", id |-> "fetch", os_function |-> "",
                       args |-> << >>, keywords |-> << >> ],
                     [ nid |-> 5, depth |-> 3, inside |-> {}, type |-> "Attribute",
                       value_id |-> "feed", attr |-> "fetch" ] >> ] @@
    "x = x[0]; db.execute(x)" :>
      [ lines |-> 2, width |-> 13, bytes |-> 23, syntax_error |-> FALSE,
        matches |-> {},
        os_uses |-> {},
        functions |-> << >>,
        nodes |-> << [ nid |-> 1, depth |-> 1, inside |-> {}, type |-> "Assign",
                       targets |-> << "x" >>, unpacked |-> {},
                       value |-> Subscript(Name("x"), Constant) ],
                     [ nid |-> 5, depth |-> 2, inside |-> {}, type |-> "Call",
                       func |-> "Attribute", id |-> "execute", os_function |-> "",
                       args |-> << Name("x") >>, keywords |-> << >> ],
                     [ nid |-> 10, depth |-> 3, inside |-> {}, type |-> "Attribute",
                       value_id |-> "db", attr |-> "execute" ] >> ] @@
    "400 lines of 700 three-byte characters" :>
      [ lines |-> 400, width |-> 702, bytes |-> 841200, syntax_error |-> FALSE,
        matches |-> {},
        os_uses |-> {},
        functions |-> << >>,
        nodes |-> << >> ] @@
    "y = x" :>
      [ lines |-> 1, width |-> 5, bytes |-> 6, syntax_error |-> FALSE,
        matches |-> {},
        os_uses |-> {},
        functions |-> << >>,
        nodes |-> << [ nid |-> 1, depth |-> 1, inside |-> {}, type |-> "Assign",
                       targets |-> << "y" >>, unpacked |-> {},
                       value |-> Name("x") ] >> ] @@
    "t = y" :>
      [ lines |-> 1, width |-> 5, bytes |-> 6, syntax_error |-> FALSE,
        matches |-> {},
        os_uses |-> {},
        functions |-> << >>,
        nodes |-> << [ nid |-> 1, depth |-> 1, inside |-> {}, type |-> "Assign",
                       targets |-> << "t" >>, unpacked |-> {},
                       value |-> Name("y") ] >> ] @@
    "z = y + x" :>
      [ lines |-> 1, width |-> 9, bytes |-> 10, syntax_error |-> FALSE,
        matches |-> {},
        os_uses |-> {},
        functions |-> << >>,
        nodes |-> << [ nid |-> 1, depth |-> 1, inside |-> {}, type |-> "Assign",
                       targets |-> << "z" >>, unpacked |-> {},
                       value |-> BinOp(Name("y"), Name("x")) ] >> ] @@
    "v = x.values" :>
      [ lines |-> 1, width |-> 12, bytes |-> 13, syntax_error |-> FALSE,
        matches |-> {},
        os_uses |-> {},
        functions |-> << >>,
        nodes |-> << [ nid |-> 1, depth |-> 1, inside |-> {}, type |-> "Assign",
                       targets |-> << "v" >>, unpacked |-> {},
                       value |-> Attribute(Name("x"), "values") ],
                     [ nid |-> 3, depth |-> 2, inside |-> {}, type |-> "Attribute",
                       value_id |-> "x", attr |-> "values" ] >> ] @@
    "x = fetch(u)" :>
      [ lines |-> 1, width |-> 12, bytes |-> 13, syntax_error |-> FALSE,
        matches |-> {},
        os_uses |-> {},
        functions |-> << >>,
        nodes |-> << [ nid |-> 1, depth |-> 1, inside |-> {}, type |-> "Assign",
                       targets |-> << "x" >>, unpacked |-> {},
                       value |-> Call("Name", "fetch", << Name("u") >>, << >>, << >>) ],
                     [ nid |-> 3, depth |-> 2, inside |-> {}, type |-> "Call",
                       func |-> "Name", id |-> "fetch", os_function |-> "",
                       args |-> << Name("u") >>, keywords |-> << >> ] >> ] @@
    "u = pd.read_csv(p)" :>
      [ lines |-> 1, width |-> 18, bytes |-> 19, syntax_error |-> FALSE,
        matches |-> {},
        os_uses |-> {},
        functions |-> << >>,
        nodes |-> << [ nid |-> 1, depth |-> 1, inside |-> {}, type |-> "Assign",
                       targets |-> << "u" >>, unpacked |-> {},
                       value |-> Call("Attribute", "read_csv", << Name("p") >>, << >>,
                         << Name("pd") >>) ],
                     [ nid |-> 3, depth |-> 2, inside |-> {}, type |-> "Call",
                       func |-> "Attribute", id |-> "read_csv", os_function |-> "",
                       args |-> << Name("p") >>, keywords |-> << >> ],
                     [ nid |-> 5, depth |-> 3, inside |-> {}, type |-> "Attribute",
                       value_id |-> "pd", attr |-> "read_csv" ] >> ] @@
    "a, b = feed.fetch()" :>
      [ lines |-> 1, width |-> 19, bytes |-> 20, syntax_error |-> FALSE,
        matches |-> {},
        os_uses |-> {},
        functions |-> << >>,
        nodes |-> << [ nid |-> 1, depth |-> 1, inside |-> {}, type |-> "Assign",
                       targets |-> << >>, unpacked |-> {"a", "b"},
                       value |-> Call("Attribute", "fetch", << >>, << >>, << Name("feed") >>) ],
                     [ nid |-> 3, depth |-> 2, inside |-> {}, type |-> "Call",
                       func |-> "Attribute", id |-> "fetch", os_function |-> "",
                       args |-> << >>, keywords |-> << >> ],
                     [ nid |-> 7, depth |-> 3, inside |-> {}, type |-> "Attribute",
                       value_id |-> "feed", attr |-> "fetch" ] >> ] @@
    "db.execute(y)" :>
      [ lines |-> 1, width |-> 13, bytes |-> 14, syntax_error |-> FALSE,
        matches |-> {},
        os_uses |-> {},
        functions |-> << >>,
        nodes |-> << [ nid |-> 2, depth |-> 2, inside |-> {}, type |-> "Call",
                       func |-> "Attribute", id |-> "execute", os_function |-> "",
                       args |-> << Name("y") >>, keywords |-> << >> ],
                     [ nid |-> 3, depth |-> 3, inside |-> {}, type |-> "Attribute",
                       value_id |-> "db", attr |-> "execute" ] >> ] @@
    "db.execute(sql=x)" :>
      [ lines |-> 1, width |-> 17, bytes |-> 18, syntax_error |-> FALSE,
        matches |-> {},
        os_uses |-> {},
        functions |-> << >>,
        nodes |-> << [ nid |-> 2, depth |-> 2, inside |-> {}, type |-> "Call",
                       func |-> "Attribute", id |-> "execute", os_function |-> "",
                       args |-> << >>, keywords |-> << Name("x") >> ],
                     [ nid |-> 3, depth |-> 3, inside |-> {}, type |-> "Attribute",
                       value_id |-> "db", attr |-> "execute" ] >> ] @@
    "db.execute(w)" :>
      [ lines |-> 1, width |-> 13, bytes |-> 14, syntax_error |-> FALSE,
        matches |-> {},
        os_uses |-> {},
        functions |-> << >>,
        nodes |-> << [ nid |-> 2, depth |-> 2, inside |-> {}, type |-> "Call",
                       func |-> "Attribute", id |-> "execute", os_function |-> "",
                       args |-> << Name("w") >>, keywords |-> << >> ],
                     [ nid |-> 3, depth |-> 3, inside |-> {}, type |-> "Attribute",
                       value_id |-> "db", attr |-> "execute" ] >> ] @@
    "out.write(x)" :>
      [ lines |-> 1, width |-> 12, bytes |-> 13, syntax_error |-> FALSE,
        matches |-> {"\\.write\\s*\\("},
        os_uses |-> {},
        functions |-> << >>,
        nodes |-> << [ nid |-> 2, depth |-> 2, inside |-> {}, type |-> "Call",
                       func |-> "Attribute", id |-> "write", os_function |-> "",
                       args |-> << Name("x") >>, keywords |-> << >> ],
                     [ nid |-> 3, depth |-> 3, inside |-> {}, type |-> "Attribute",
                       value_id |-> "out", attr |-> "write" ] >> ] @@
    "if x > 0: w = 1" :>
      [ lines |-> 2, width |-> 9, bytes |-> 20, syntax_error |-> FALSE,
        matches |-> {},
        os_uses |-> {},
        functions |-> << >>,
        nodes |-> << [ nid |-> 1, depth |-> 1, inside |-> {}, type |-> "If",
                       test |-> Compare(<< Name("x"), Constant >>) ],
                     [ nid |-> 3, depth |-> 2, inside |-> {1}, type |-> "Assign",
                       targets |-> << "w" >>, unpacked |-> {},
                       value |-> Constant ] >> ] @@
    "if x: w = 1" :>
      [ lines |-> 2, width |-> 9, bytes |-> 16, syntax_error |-> FALSE,
        matches |-> {},
        os_uses |-> {},
        functions |-> << >>,
        nodes |-> << [ nid |-> 1, depth |-> 1, inside |-> {}, type |-> "If",
                       test |-> Name("x") ],
                     [ nid |-> 3, depth |-> 2, inside |-> {1}, type |-> "Assign",
                       targets |-> << "w" >>, unpacked |-> {},
                       value |-> Constant ] >> ] @@
    "while x: w = w + 1" :>
      [ lines |-> 2, width |-> 13, bytes |-> 23, syntax_error |-> FALSE,
        matches |-> {},
        os_uses |-> {},
        functions |-> << >>,
        nodes |-> << [ nid |-> 1, depth |-> 1, inside |-> {}, type |-> "While",
                       test |-> Name("x") ],
                     [ nid |-> 3, depth |-> 2, inside |-> {1}, type |-> "Assign",
                       targets |-> << "w" >>, unpacked |-> {},
                       value |-> BinOp(Name("w"), Constant) ] >> ] @@
    "w = 1" :>
      [ lines |-> 1, width |-> 5, bytes |-> 6, syntax_error |-> FALSE,
        matches |-> {},
        os_uses |-> {},
        functions |-> << >>,
        nodes |-> << [ nid |-> 1, depth |-> 1, inside |-> {}, type |-> "Assign",
                       targets |-> << "w" >>, unpacked |-> {},
                       value |-> Constant ] >> ] @@
    "p = os.path.exists(a)" :>
      [ lines |-> 1, width |-> 21, bytes |-> 22, syntax_error |-> FALSE,
        matches |-> {},
        os_uses |-> {"os.path.exists"},
        functions |-> << >>,
        nodes |-> << [ nid |-> 1, depth |-> 1, inside |-> {}, type |-> "Assign",
                       targets |-> << "p" >>, unpacked |-> {},
                       value |-> Call("Attribute", "exists", << Name("a") >>, << >>,
                         << Attribute(Name("os"), "path") >>) ],
                     [ nid |-> 3, depth |-> 2, inside |-> {}, type |-> "Call",
                       func |-> "Attribute", id |-> "exists", os_function |-> "os.path.exists",
                       args |-> << Name("a") >>, keywords |-> << >> ],
                     [ nid |-> 7, depth |-> 4, inside |-> {}, type |-> "Attribute",
                       value_id |-> "os", attr |-> "path" ] >> ] @@
    "from os.path import expanduser" :>
      [ lines |-> 1, width |-> 30, bytes |-> 31, syntax_error |-> FALSE,
        matches |-> {},
        os_uses |-> {"os.path.expanduser"},
        functions |-> << >>,
        nodes |-> << [ nid |-> 1, depth |-> 1, inside |-> {}, type |-> "ImportFrom",
                       module_is_none |-> FALSE, module |-> << "os", Dot, "path" >> ] >> ] @@
    "p = expanduser(a)" :>
      [ lines |-> 1, width |-> 17, bytes |-> 18, syntax_error |-> FALSE,
        matches |-> {},
        os_uses |-> {},
        functions |-> << >>,
        nodes |-> << [ nid |-> 1, depth |-> 1, inside |-> {}, type |-> "Assign",
                       targets |-> << "p" >>, unpacked |-> {},
                       value |-> Call("Name", "expanduser", << Name("a") >>, << >>, << >>) ],
                     [ nid |-> 3, depth |-> 2, inside |-> {}, type |-> "Call",
                       func |-> "Name", id |-> "expanduser", os_function |-> "",
                       args |-> << Name("a") >>, keywords |-> << >> ] >> ] @@
    "f = os.path.expanduser" :>
      [ lines |-> 1, width |-> 22, bytes |-> 23, syntax_error |-> FALSE,
        matches |-> {},
        os_uses |-> {"os.path.expanduser"},
        functions |-> << >>,
        nodes |-> << [ nid |-> 1, depth |-> 1, inside |-> {}, type |-> "Assign",
                       targets |-> << "f" >>, unpacked |-> {},
                       value |-> Attribute(Attribute(Name("os"), "path"), "expanduser") ],
                     [ nid |-> 5, depth |-> 3, inside |-> {}, type |-> "Attribute",
                       value_id |-> "os", attr |-> "path" ] >> ] @@
    "y = 1" :>
      [ lines |-> 1, width |-> 5, bytes |-> 6, syntax_error |-> FALSE,
        matches |-> {},
        os_uses |-> {},
        functions |-> << >>,
        nodes |-> << [ nid |-> 1, depth |-> 1, inside |-> {}, type |-> "Assign",
                       targets |-> << "y" >>, unpacked |-> {},
                       value |-> Constant ] >> ]

StrategyFragments ==
    { "import pandas as pd",
      "import socket",
      "import json",
      "import os",
      "from . import helpers",
      "from core.config import BACKTEST_START",
      "x = eval(y)",
      "# never call eval(x) here",
      "p = os.path.join(a, b)",
      "p = os.path.abspath(a)",
      "os.makedirs(p)",
      "d = os.getcwd()",
      "sep = os.sep",
      "def f(): 3 statements",
      "def f(): 119 statements",
      "def f(): 120 statements",
      "def f(): 25 ifs",
      "def f(): if with 26 and-operands",
      "def f(): 7 nested ifs",
      "500 comment lines",
      "line of 800 characters",
      "line of 801 characters",
      "def broken(:",
      "x = feed.fetch()",
      "x = x[0]; db.execute(x)",
      "400 lines of 700 three-byte characters" }

DataFlowFragments ==
    { "y = x",
      "t = y",
      "z = y + x",
      "v = x.values",
      "x = fetch(u)",
      "u = pd.read_csv(p)",
      "a, b = feed.fetch()",
      "db.execute(y)",
      "db.execute(sql=x)",
      "db.execute(w)",
      "out.write(x)",
      "if x > 0: w = 1",
      "if x: w = 1",
      "while x: w = w + 1",
      "w = 1",
      "x = feed.fetch()",
      "x = x[0]; db.execute(x)" }

\* The statements of a strategy that uses the os module.
OsFragments ==
    { "import os",
      "p = os.path.join(a, b)",
      "p = os.path.abspath(a)",
      "os.makedirs(p)",
      "d = os.getcwd()",
      "p = os.path.exists(a)",
      "from os.path import expanduser",
      "p = expanduser(a)",
      "f = os.path.expanduser" }

\* Statements that taint x, pass the taint on to y and t, and assign y again
\* from a constant.
TaintFragments ==
    { "x = feed.fetch()",
      "y = x",
      "t = y",
      "y = 1",
      "w = 1",
      "db.execute(y)" }

\* The text of a file as the fragments it is made of, in order.
RECURSIVE CodeLines(_)
CodeLines(code) ==
    IF code = << >> THEN 0 ELSE Fragment[Head(code)].lines + CodeLines(Tail(code))

RECURSIVE CodeBytes(_)
CodeBytes(code) ==
    IF code = << >> THEN 0 ELSE Fragment[Head(code)].bytes + CodeBytes(Tail(code))

\* The first line longer than limit characters exists.
HasLongLine(code, limit) == \E i \in 1..Len(code) : Fragment[code[i]].width > limit

\* ast.parse(code) raises SyntaxError.
SyntaxErrorIn(code) == \E i \in 1..Len(code) : Fragment[code[i]].syntax_error

\* The nodes of the pieces from the unit-th on; unit tells the nodes of one
\* piece from those of another.
RECURSIVE UnitNodes(_, _)
UnitNodes(code, unit) ==
    IF code = << >> THEN << >>
    ELSE LET nodes == Fragment[Head(code)].nodes
         IN  [ i \in DOMAIN nodes |-> [ unit |-> unit ] @@ nodes[i] ]
                 \o UnitNodes(Tail(code), unit + 1)

CodeNodes(code) == UnitNodes(code, 1)

RECURSIVE CodeFunctions(_)
CodeFunctions(code) ==
    IF code = << >> THEN << >>
    ELSE Fragment[Head(code)].functions \o CodeFunctions(Tail(code))

DeeperThan(d, n) == n.depth > d
AtDepth(d, n) == n.depth = d

\* ast.walk(tree) is breadth first: the nodes of one depth in source order,
\* then the nodes of the next depth.
RECURSIVE WalkFrom(_, _)
WalkFrom(nodes, d) ==
    IF nodes = << >> THEN << >>
    ELSE SelectSeq(nodes, LAMBDA n : AtDepth(d, n))
             \o WalkFrom(SelectSeq(nodes, LAMBDA n : DeeperThan(d, n)), d + 1)

AstWalk(code) == WalkFrom(CodeNodes(code), 1)

NoError == [ raised |-> FALSE, error |-> "none", msg |-> << >> ]
Raise(error, msg) == [ raised |-> TRUE, error |-> error, msg |-> msg ]

\* One statement after another: what the first raised, or else the outcome of
\* the rest.
Otherwise(e, rest) == IF e.raised THEN e ELSE rest

\* The first index a loop stops at, given the indices whose element makes it
\* stop; 0 when the loop runs to its end.
FirstIndex(hits) ==
    IF hits = {} THEN 0 ELSE CHOOSE i \in hits : \A j \in hits : i <= j

\* ComplexityAnalyzer.__init__, lines 288-302.  raised, error and msg hold how
\* analyze() ended; warnings holds what it logged at warning level.
NewComplexityAnalyzer(test_mode) ==
    [ analyzed |-> TRUE, test_mode |-> test_mode, function_complexity |-> << >>,
      infinite_loop_risk |-> << >>, warnings |-> << >>, raised |-> FALSE, error |-> "none", msg |-> << >> ]

\* statement_count, line 356: ast.walk(node) starts at the FunctionDef node,
\* which is an ast.stmt itself.
StatementCount(f) == 1 + StmtNodes(f.body)

\* complexity, lines 411-418
CyclomaticComplexity_BranchesOnly(f) == 1 + BranchNodes(f.body)

CyclomaticComplexity(f) == 1 + BranchNodes(f.body) + AndOperands(f.body)

\* _get_max_nested_depth(node), lines 502-521
GetMaxNestedDepth(f) == GetDepth(f.body, 0)

\* A ceiling is exceeded: logger.warning in test mode, raise SecurityError
\* otherwise.
Exceeded_AlwaysRaise(a, msg) ==
    [ a EXCEPT !.raised = TRUE, !.error = "SecurityError", !.msg = msg ]

Exceeded(a, msg) ==
    IF a.test_mode
    THEN [ a EXCEPT !.warnings = Append(@, msg) ]
    ELSE [ a EXCEPT !.raised = TRUE, !.error = "SecurityError", !.msg = msg ]

\* check_module_complexity(), lines 314-335
CheckModuleComplexity(t, a) ==
    IF t.lines > MAX_MODULE_COMPLEXITY
    THEN [ a EXCEPT !.raised = TRUE, !.error = "SecurityError",
                    !.msg = << "Module complexity exceeded" >> ]
    ELSE a

\* check_function_complexity(), lines 351-392, over the functions in the order
\* of ast.walk; the loop ends where a raise leaves it.
RECURSIVE CheckFunctionComplexity(_, _)
CheckFunctionComplexity(fs, a) ==
    IF fs = << >> \/ a.raised THEN a
    ELSE LET f == Head(fs)
             stored == [ a EXCEPT !.function_complexity =
                             (f.name :> [ statements |-> StatementCount(f),
                                          branches |-> BranchNodes(f.body) ]) @@ @ ]
         IN  CheckFunctionComplexity(Tail(fs),
                 IF StatementCount(f) > MAX_FUNCTION_COMPLEXITY
                 THEN Exceeded(stored, << "Function '", f.name, "' complexity exceeded" >>)
                 ELSE stored)

\* check_cyclomatic_complexity(), lines 406-431
RECURSIVE CheckCyclomaticComplexity(_, _)
CheckCyclomaticComplexity(fs, a) ==
    IF fs = << >> \/ a.raised THEN a
    ELSE LET f == Head(fs)
             stored ==
                 IF f.name \in DOMAIN a.function_complexity
                 THEN [ a EXCEPT !.function_complexity[f.name] =
                            [ cyclomatic_complexity |-> CyclomaticComplexity(f) ] @@ @ ]
                 ELSE a
         IN  CheckCyclomaticComplexity(Tail(fs),
                 IF CyclomaticComplexity(f) > MAX_CYCLOMATIC_COMPLEXITY
                 THEN Exceeded(stored, << "Cyclomatic complexity in '", f.name, "' exceeded" >>)
                 ELSE stored)

\* check_nested_depth(), lines 433-450
RECURSIVE CheckNestedDepth(_, _)
CheckNestedDepth(fs, a) ==
    IF fs = << >> \/ a.raised THEN a
    ELSE LET f == Head(fs)
             stored ==
                 IF f.name \in DOMAIN a.function_complexity
                 THEN [ a EXCEPT !.function_complexity[f.name] =
                            [ max_nesting_depth |-> GetMaxNestedDepth(f) ] @@ @ ]
                 ELSE a
         IN  CheckNestedDepth(Tail(fs),
                 IF GetMaxNestedDepth(f) > MAX_NESTED_DEPTH
                 THEN Exceeded(stored, << "Nested depth in '", f.name, "' exceeded" >>)
                 ELSE stored)

\* any(isinstance(n, ast.Break) for n in ast.walk(subnode)), line 462: the
\* Break nodes below a block, whichever loop they leave.
RECURSIVE BreakNodes(_)
BreakNodes(stmts) ==
    IF stmts = << >> THEN 0
    ELSE LET s == Head(stmts)
             own == IF s.kind = "break" THEN 1 ELSE 0
         IN  s.times * (own + BreakNodes(s.body) + BreakNodes(s.orelse))
                 + BreakNodes(Tail(stmts))

\* isinstance(subnode.test, ast.Constant) and subnode.test.value == True,
\* line 460; 1 == True in Python.
IsWhileTrue(s) ==
    /\ s.kind = "while"
    /\ "test" \in DOMAIN s
    /\ s.test \in { "True", "1" }

\* The While nodes below a block for which line 464 is reached.
RECURSIVE WhileTrueWithoutBreak(_)
WhileTrueWithoutBreak(stmts) ==
    IF stmts = << >> THEN 0
    ELSE LET s == Head(stmts)
             own == IF IsWhileTrue(s) /\ BreakNodes(s.body) + BreakNodes(s.orelse) = 0
                    THEN 1 ELSE 0
         IN  s.times * (own + WhileTrueWithoutBreak(s.body) + WhileTrueWithoutBreak(s.orelse))
                 + WhileTrueWithoutBreak(Tail(stmts))

\* check_infinite_loop_risk(), lines 452-466: the name of a function is
\* appended, and a warning logged, once per such loop.
RECURSIVE CheckInfiniteLoopRisk(_, _)
CheckInfiniteLoopRisk(fs, a) ==
    IF fs = << >> \/ a.raised THEN a
    ELSE LET f == Head(fs)
             found == [ i \in 1..WhileTrueWithoutBreak(f.body) |-> f.name ]
             logged == [ i \in 1..Len(found) |->
                           << "Potential infinite loop in '", f.name, "'" >> ]
         IN  CheckInfiniteLoopRisk(Tail(fs),
                 [ a EXCEPT !.infinite_loop_risk = @ \o found,
                            !.warnings = @ \o logged ])

\* ComplexityAnalyzer(code).analyze(), lines 304-312: the checks in order;
\* check_recursion_risk and report_metrics after them only log.
AnalyzeComplexity(t, test_mode) ==
    LET a1 == CheckModuleComplexity(t, NewComplexityAnalyzer(test_mode))
        a2 == CheckFunctionComplexity(t.functions, a1)
        a3 == CheckCyclomaticComplexity(t.functions, a2)
    IN  CheckInfiniteLoopRisk(t.functions, CheckNestedDepth(t.functions, a3))

\* The analyzer on the text of a file.
ComplexityAnalyze(code, test_mode) ==
    AnalyzeComplexity([ lines |-> CodeLines(code), functions |-> CodeFunctions(code),
                        nodes |-> CodeNodes(code) ], test_mode)

\* DataFlowAnalyzer, lines 560-763.
sensitive_operations ==
    { "eval", "exec", "system", "popen", "query", "execute", "call", "check_output",
      "to_csv", "to_json", "write", "post", "put", "send", "upload" }

external_data_sources ==
    { "get_data_yahoo", "read_csv", "request", "get", "open", "urlopen", "read_html",
      "load_data", "fetch" }

\* DataFlowAnalyzer.__init__, lines 563-580.  potential_vulnerabilities is
\* kept as a bag: the names of one argument are visited in the order of a
\* Python set.  raised, error and msg hold how analyze() ended.
NewDataFlowAnalyzer ==
    [ analyzed |-> TRUE, potential_vulnerabilities |-> EmptyBag, external_data_vars |-> {},
      assignment_map |-> << >>, variable_flow |-> << >>,
      raised |-> FALSE, error |-> "none", msg |-> << >> ]

\* The entries written to variable_flow: lines 613, 627-631 and 701-703.
ExternalFlow ==
    [ source |-> "external", parent_vars |-> {}, tainted |-> TRUE,
      control_flow_tainted |-> FALSE ]
DerivedFlow(parent_vars) ==
    [ source |-> "derived", parent_vars |-> parent_vars, tainted |-> TRUE,
      control_flow_tainted |-> FALSE ]
EmptyFlow ==
    [ source |-> "none", parent_vars |-> {}, tainted |-> FALSE,
      control_flow_tainted |-> FALSE ]

\* _extract_variables_from_expr(node), lines 633-654: names are followed
\* through BinOp, UnaryOp, Call arguments, the value of a Subscript, List and
\* Tuple; every other expression yields no name.
RECURSIVE ExtractVariablesFromExpr(_)
ExtractVariablesFromExpr(node) ==
    IF node.type = "Name" THEN { node.id }
    ELSE IF node.type \in { "BinOp", "UnaryOp", "Call", "Subscript", "List", "Tuple" }
    THEN UNION { ExtractVariablesFromExpr(node.operands[i]) : i \in DOMAIN node.operands }
           \cup UNION { ExtractVariablesFromExpr(node.keywords[i]) :
                          i \in DOMAIN node.keywords }
    ELSE {}

\* _is_external_data_source(node), lines 730-739, on the value of an assignment.
IsExternalDataSource(node) ==
    /\ node.type = "Call"
    /\ node.func \in { "Name", "Attribute" }
    /\ node.id \in external_data_sources

\* _is_sensitive_operation(node), lines 741-750, on a Call node of the walk.
IsSensitiveOperation(node) ==
    /\ node.func \in { "Name", "Attribute" }
    /\ node.id \in sensitive_operations

\* _is_data_output_operation(node), lines 752-757.
IsDataOutputOperation(node) ==
    /\ node.func = "Attribute"
    /\ node.id \in { "to_csv", "to_json", "write", "post", "put", "send", "upload" }

\* variable_flow[target] = info
SetFlow(variable_flow, target, info) ==
    [ v \in { target } |-> info ] @@ variable_flow

\* The nodes a loop over ast.walk(tree) stops at when it asks
\* isinstance(node, ast.Assign) or isinstance(node, ast.Call), in the order of
\* the walk.
Assignments(walk) == SelectSeq(walk, LAMBDA node : node.type = "Assign")
Calls(walk) == SelectSeq(walk, LAMBDA node : node.type = "Call")

\* _build_assignment_map(), lines 598-613: one pass over the whole walk.
RECURSIVE BuildAssignmentMap(_, _)
BuildAssignmentMap(walk, a) ==
    IF walk = << >> THEN a
    ELSE LET node == Head(walk)
             names == { node.targets[i] : i \in DOMAIN node.targets }
             here == [ v \in names |-> [ unit |-> node.unit, nid |-> node.nid ] ]
             mapped == [ a EXCEPT !.assignment_map = here @@ @ ]
         IN  IF node.type # "Assign" THEN BuildAssignmentMap(Tail(walk), a)
             ELSE IF IsExternalDataSource(node.value)
             THEN BuildAssignmentMap(Tail(walk),
                      [ mapped EXCEPT
                          !.external_data_vars = @ \cup names,
                          !.variable_flow = [ v \in names |-> ExternalFlow ] @@ @ ])
             ELSE BuildAssignmentMap(Tail(walk), mapped)

\* One target of one assignment in _track_variable_transformations(), lines
\* 622-631: the target joins external_data_vars before parent_vars is built.
TrackTarget_Retract(a, target, used_vars) ==
    IF used_vars \cap a.external_data_vars # {}
    THEN LET tainted == a.external_data_vars \cup { target }
         IN  [ a EXCEPT
                 !.external_data_vars = tainted,
                 !.variable_flow = SetFlow(@, target, DerivedFlow(used_vars \cap tainted)) ]
    ELSE [ a EXCEPT !.external_data_vars = @ \ { target } ]

TrackTarget(a, target, used_vars) ==
    IF used_vars \cap a.external_data_vars # {}
    THEN LET tainted == a.external_data_vars \cup { target }
         IN  [ a EXCEPT
                 !.external_data_vars = tainted,
                 !.variable_flow = SetFlow(@, target, DerivedFlow(used_vars \cap tainted)) ]
    ELSE a

RECURSIVE TrackTargets(_, _, _)
TrackTargets(a, targets, used_vars) ==
    IF targets = << >> THEN a
    ELSE TrackTargets(TrackTarget(a, Head(targets), used_vars), Tail(targets), used_vars)

\* _track_variable_transformations(), lines 615-631: a second pass over the
\* walk, after _build_assignment_map has seen all of it.
RECURSIVE TrackVariableTransformations(_, _)
TrackVariableTransformations(walk, a) ==
    IF walk = << >> THEN a
    ELSE LET node == Head(walk)
         IN  IF node.type = "Assign"
             THEN TrackVariableTransformations(Tail(walk),
                      TrackTargets(a, node.targets, ExtractVariablesFromExpr(node.value)))
             ELSE TrackVariableTransformations(Tail(walk), a)

\* _get_source_chain(var), lines 672-683, does not return: a derived variable
\* is reached again on the chain of its own parents.
RECURSIVE SourceChainDiverges(_, _, _)
SourceChainDiverges(variable_flow, var, path) ==
    IF var \notin DOMAIN variable_flow THEN FALSE
    ELSE IF variable_flow[var].source # "derived" THEN FALSE
    ELSE IF var \in path THEN TRUE
    ELSE \E parent \in variable_flow[var].parent_vars :
             SourceChainDiverges(variable_flow, parent, path \cup { var })

\* potential_vulnerabilities.append(...), one finding for each name.
Report(a, kind, names) ==
    [ a EXCEPT !.potential_vulnerabilities =
                   @ (+) SetToBag({ [ kind |-> kind, var |-> var ] : var \in names }) ]

\* The loop over node.args of one sensitive call, lines 662-670.
RECURSIVE UntrustedArgs(_, _)
UntrustedArgs(args, a) ==
    IF args = << >> \/ a.raised THEN a
    ELSE LET arg_vars == ExtractVariablesFromExpr(Head(args)) \cap a.external_data_vars
         IN  IF \E var \in arg_vars : SourceChainDiverges(a.variable_flow, var, {})
             THEN [ a EXCEPT !.raised = TRUE, !.error = "RecursionError",
                             !.msg = << "maximum recursion depth exceeded" >> ]
             ELSE UntrustedArgs(Tail(args), Report(a, "unsafe use", arg_vars))

\* check_untrusted_data_flow(), lines 656-670.
RECURSIVE CheckUntrustedDataFlow(_, _)
CheckUntrustedDataFlow(walk, a) ==
    IF walk = << >> \/ a.raised THEN a
    ELSE LET node == Head(walk)
         IN  IF node.type = "Call" /\ IsSensitiveOperation(node)
             THEN CheckUntrustedDataFlow(Tail(walk), UntrustedArgs(node.args, a))
             ELSE CheckUntrustedDataFlow(Tail(walk), a)

\* The names of the positional arguments of the calls of one kind that are in
\* a set of names, each with the number of times it is met.
RECURSIVE ArgFindings(_, _, _)
ArgFindings(args, names, kind) ==
    IF args = << >> THEN EmptyBag
    ELSE SetToBag({ [ kind |-> kind, var |-> var ] :
                       var \in ExtractVariablesFromExpr(Head(args)) \cap names })
           (+) ArgFindings(Tail(args), names, kind)

\* check_data_leakage(), lines 716-728.
RECURSIVE CheckDataLeakage(_, _)
CheckDataLeakage(walk, a) ==
    IF walk = << >> THEN a
    ELSE LET node == Head(walk)
             found == ArgFindings(node.args, a.external_data_vars, "data leakage")
         IN  IF node.type = "Call" /\ IsDataOutputOperation(node)
             THEN CheckDataLeakage(Tail(walk),
                      [ a EXCEPT !.potential_vulnerabilities = @ (+) found ])
             ELSE CheckDataLeakage(Tail(walk), a)

\* control_dependence, lines 688-703: the Name targets of the assignments
\* below an If or While whose test uses a name of external_data_vars.
ControlDependence(walk, a) ==
    LET Tainting(node) ==
            /\ node.type \in { "If", "While" }
            /\ ExtractVariablesFromExpr(node.test) \cap a.external_data_vars # {}
        Below(subnode, node) == subnode.unit = node.unit /\ node.nid \in subnode.inside
    IN  UNION { { walk[j].targets[k] : k \in DOMAIN walk[j].targets } :
                  j \in { j \in DOMAIN walk :
                            /\ walk[j].type = "Assign"
                            /\ \E i \in DOMAIN walk :
                                   Tainting(walk[i]) /\ Below(walk[j], walk[i]) } }

\* The second loop of check_indirect_data_flow(), lines 706-714.
RECURSIVE ControlFindings(_, _)
ControlFindings(walk, control_dependence) ==
    IF walk = << >> THEN EmptyBag
    ELSE LET node == Head(walk)
         IN  IF node.type = "Call" /\ IsSensitiveOperation(node)
             THEN ArgFindings(node.args, control_dependence, "control flow dependency")
                    (+) ControlFindings(Tail(walk), control_dependence)
             ELSE ControlFindings(Tail(walk), control_dependence)

\* check_indirect_data_flow(), lines 685-714.
CheckIndirectDataFlow(walk, a) ==
    LET control_dependence == ControlDependence(walk, a)
        Marked(v) ==
            IF v \in DOMAIN a.variable_flow
            THEN [ a.variable_flow[v] EXCEPT !.control_flow_tainted = TRUE ]
            ELSE [ EmptyFlow EXCEPT !.control_flow_tainted = TRUE ]
    IN  [ a EXCEPT
            !.variable_flow = [ v \in control_dependence |-> Marked(v) ] @@ @,
            !.potential_vulnerabilities = @ (+) ControlFindings(Calls(walk), control_dependence) ]

\* The checks of analyze() after check_untrusted_data_flow, lines 592-593;
\* untrusted is the analyzer as check_untrusted_data_flow left it.
CheckDataFlows(walk, untrusted) ==
    Otherwise(untrusted,
              CheckIndirectDataFlow(walk, CheckDataLeakage(Calls(walk), untrusted)))

\* analyze() with the propagation pass run a second time over the walk.
AnalyzeDataFlow_FixedPoint(walk) ==
    LET built == BuildAssignmentMap(Assignments(walk), NewDataFlowAnalyzer)
        once == TrackVariableTransformations(Assignments(walk), built)
        tracked == TrackVariableTransformations(Assignments(walk), once)
    IN  CheckDataFlows(walk, CheckUntrustedDataFlow(Calls(walk), tracked))

\* analyze(), lines 582-596, on the nodes of a tree in the order of ast.walk:
\* RecursionError leaves check_untrusted_data_flow and ends the analysis;
\* _report_vulnerabilities only logs.
AnalyzeDataFlow(walk) ==
    LET built == BuildAssignmentMap(Assignments(walk), NewDataFlowAnalyzer)
        tracked == TrackVariableTransformations(Assignments(walk), built)
    IN  CheckDataFlows(walk, CheckUntrustedDataFlow(Calls(walk), tracked))

\* The analyzer on the text of a file.
DataFlowAnalyze(code) == AnalyzeDataFlow(AstWalk(code))

\* The import test of analyze_ast, lines 869-872 and 881-884.
IsAllowedImport(name) ==
    \E allowed \in ALLOWED_MODULES :
        name = allowed \/ StartsWith(name, Append(allowed, Dot))

\* What the second loop of analyze_ast, lines 827-886, raises at one node.
NodeError_NoCallNames(node) ==
    CASE node.type = "Call" ->
            IF node.os_function # "" /\ node.os_function \notin ALLOWED_OS_FUNCTIONS
            THEN Raise("SecurityError", << "Disallowed os function call detected" >>)
            ELSE NoError
      [] node.type = "Attribute" ->
            IF node.value_id = "os" /\ node.attr \notin { "path", "makedirs" }
            THEN Raise("SecurityError", << "Disallowed os module attribute: os.", node.attr >>)
            ELSE NoError
      [] node.type = "Import" ->
            LET Dangerous(name) == name # << "os" >> /\ ~ IsAllowedImport(name)
                i == FirstIndex({ ix \in DOMAIN node.names : Dangerous(node.names[ix]) })
            IN  IF i # 0
                THEN Raise("SecurityError",
                           << "Dangerous import detected: " >> \o node.names[i])
                ELSE NoError
      [] node.type = "ImportFrom" ->
            IF node.module_is_none
            THEN Raise("AttributeError",
                       << "'NoneType' object has no attribute 'startswith'" >>)
            ELSE IF node.module = << "os", Dot, "path" >> \/ IsAllowedImport(node.module)
            THEN NoError
            ELSE Raise("SecurityError",
                       << "Dangerous import detected: from " >> \o node.module)
      [] OTHER -> NoError

NodeError(node) ==
    CASE node.type = "Call" ->
            IF node.func = "Name" /\ node.id \in { "eval", "exec", "open", "system" }
            THEN Raise("SecurityError", << "Dangerous function call detected: ", node.id >>)
            ELSE IF node.os_function # "" /\ node.os_function \notin ALLOWED_OS_FUNCTIONS
            THEN Raise("SecurityError", << "Disallowed os function call detected" >>)
            ELSE NoError
      [] node.type = "Attribute" ->
            IF node.value_id = "os" /\ node.attr \notin { "path", "makedirs" }
            THEN Raise("SecurityError", << "Disallowed os module attribute: os.", node.attr >>)
            ELSE NoError
      [] node.type = "Import" ->
            LET Dangerous(name) == name # << "os" >> /\ ~ IsAllowedImport(name)
                i == FirstIndex({ ix \in DOMAIN node.names : Dangerous(node.names[ix]) })
            IN  IF i # 0
                THEN Raise("SecurityError",
                           << "Dangerous import detected: " >> \o node.names[i])
                ELSE NoError
      [] node.type = "ImportFrom" ->
            IF node.module_is_none
            THEN Raise("AttributeError",
                       << "'NoneType' object has no attribute 'startswith'" >>)
            ELSE IF node.module = << "os", Dot, "path" >> \/ IsAllowedImport(node.module)
            THEN NoError
            ELSE Raise("SecurityError",
                       << "Dangerous import detected: from " >> \o node.module)
      [] OTHER -> NoError

NodeRaises(node) == NodeError(node).raised

\* The second loop of analyze_ast, lines 827-886: the first node that raises
\* ends it.
CheckNodes(walk) ==
    LET i == FirstIndex({ ix \in DOMAIN walk : NodeRaises(walk[ix]) })
    IN  IF i # 0 THEN NodeError(walk[i]) ELSE NoError

\* StrategySecurity.analyze_ast(code).
AnalyzeAst(code, test_mode) ==
    IF SyntaxErrorIn(code) THEN Raise("SyntaxError", << "invalid syntax" >>)
    ELSE Otherwise(ComplexityAnalyze(code, test_mode),
             Otherwise(DataFlowAnalyze(code), CheckNodes(AstWalk(code))))

dangerous_patterns(v) ==
    IF v = "core/security.py" THEN security_py_patterns ELSE utils_py_patterns

RECURSIVE CodeMatches(_)
CodeMatches(code) ==
    IF code = << >> THEN {} ELSE Fragment[Head(code)].matches \cup CodeMatches(Tail(code))

\* The regex loop: the first pattern of the table re.search finds in the code.
PatternError(v, code) ==
    LET Found(pattern) == pattern \in CodeMatches(code)
        i == FirstIndex({ ix \in DOMAIN dangerous_patterns(v) : Found(dangerous_patterns(v)[ix]) })
    IN  IF i # 0
        THEN Raise("SecurityError",
                   << "Dangerous pattern detected: ", dangerous_patterns(v)[i] >>)
        ELSE NoError

\* The body of the try block of validate_strategy_file.  The Bandit step of
\* utils.py only logs what the analyzer reports.
ValidateBody(v, file, test_mode) ==
    IF ~ file.exists THEN Raise("SecurityError", << "Strategy file not found" >>)
    ELSE IF CodeBytes(file.code) > 500 * 1024
    THEN Raise("SecurityError", << "Strategy file too large" >>)
    ELSE IF HasLongLine(file.code, 800)
    THEN Raise("SecurityError", << "Excessively long line detected" >>)
    ELSE Otherwise(AnalyzeAst(file.code, test_mode), PatternError(v, file.code))

\* The except clause of validate_strategy_file, lines 1101-1103: every
\* exception of the body is raised again as
\* SecurityError("Strategy validation failed: ...").
Reraised(e) ==
    IF e.raised
    THEN [ kind |-> "SecurityError", error |-> e.error,
           msg |-> << "Strategy validation failed: " >> \o e.msg ]
    ELSE [ kind |-> "success", error |-> "none", msg |-> << >> ]

\* validate_strategy_file(file_path).
ValidateStrategyFile(v, file, test_mode) == Reraised(ValidateBody(v, file, test_mode))

SourceFiles ==
    { NoFile } \cup
    { [ exists |-> TRUE, code |-> code ] :
        code \in UNION { [ 1..n -> StrategyFragments ] : n \in 0..MaxFragments } }

InitValidate ==
    /\ InitEnv
    /\ inv = 0
    /\ InitHookIdle
    /\ InitMonIdle
    /\ InitGuardIdle
    /\ InitOthersIdle
    /\ validator \in Validators
    /\ source_file \in SourceFiles
    /\ verdict = NoVerdict
    /\ verdicts = << >>
    /\ InitAnalyzersIdle

Validate ==
    /\ verdict.kind = "none"
    /\ verdict' = ValidateStrategyFile(validator, source_file, is_test_mode)
    /\ verdicts' = Append(verdicts, [ pytest_loaded |-> pytest_loaded, verdict |-> verdict' ])
    /\ UNCHANGED << otherVars, now, envVars, meta_path, inv, hookVars, monVars, guardVars,
                    validator, source_file, analyzerVars >>

NextValidate == Validate

SpecValidate == InitValidate /\ [][NextValidate]_vars

\* validate_strategy_file called again and again on one file, while the
\* process goes on: time passes, and any import of the process may bring in
\* unittest or pytest (numpy.testing imports unittest).
SmallSourceFiles ==
    { file \in SourceFiles : Len(file.code) <= MaxRevalidatedFragments }

InitRevalidate ==
    /\ InitEnv
    /\ validator \in Validators
    /\ source_file \in SmallSourceFiles
    /\ verdict = NoVerdict
    /\ verdicts = << >>
    /\ InitAnalyzersIdle
    /\ inv = 0
    /\ InitHookIdle
    /\ InitMonIdle
    /\ InitGuardIdle
    /\ InitOthersIdle

Revalidate ==
    /\ verdict.kind # "none"
    /\ Len(verdicts) < MaxValidations
    /\ verdict' = ValidateStrategyFile(validator, source_file, is_test_mode)
    /\ verdicts' = Append(verdicts, [ pytest_loaded |-> pytest_loaded, verdict |-> verdict' ])
    /\ UNCHANGED << otherVars, now, envVars, meta_path, inv, hookVars, monVars, guardVars,
                    validator, source_file, analyzerVars >>

LoadTestFramework ==
    /\ ~ pytest_loaded
    /\ pytest_loaded' = TRUE
    /\ UNCHANGED << otherVars, now, relaxed_limits, vetVars, meta_path, inv, hookVars, monVars,
                    guardVars >>

NextRevalidate ==
    \/ Validate
    \/ Revalidate
    \/ LoadTestFramework
    \/ Tick

SpecRevalidate == InitRevalidate /\ [][NextRevalidate]_vars

\* The modules handed to a ComplexityAnalyzer: up to MaxFunctions module-level
\* functions, each with one of the bodies below.
\* A block of n simple statements.
Simple(n) == << Stmt("simple", n, 0, << >>, << >>) >>

\* The handlers of a try statement: `except Exception: pass`.
Handlers(kind) == IF kind = "try" THEN Simple(1) ELSE << >>

\* depth statements of one kind, each the block of the one before, around a
\* single simple statement.
RECURSIVE Nested(_, _)
Nested(kind, depth) ==
    IF depth = 0 THEN Simple(1)
    ELSE << Stmt(kind, 1, 0, Nested(kind, depth - 1), Handlers(kind)) >>

FunctionBodies ==
    { Simple(3), Simple(MAX_FUNCTION_COMPLEXITY - 1), Simple(MAX_FUNCTION_COMPLEXITY) }
        \cup { << Stmt("simple", 1, 1, << >>, << >>) >> }
        \cup { Nested(kind, 1) : kind \in { "if", "for", "while", "try", "with" } }
        \cup { Nested("if", MAX_NESTED_DEPTH + 1), Nested("with", MAX_NESTED_DEPTH + 1) }
        \cup { << Stmt("if", MAX_CYCLOMATIC_COMPLEXITY, 0, Simple(1), << >>) >>,
               << Stmt("if", 1, MAX_CYCLOMATIC_COMPLEXITY, Simple(1), << >>) >> }

FunctionDefs == { [ name |-> name, body |-> body ] : name \in { "f", "g" }, body \in FunctionBodies }

\* The fewest lines the statements of a block can be written on: simple
\* statements share a line, a compound statement opens one.
RECURSIVE MinLines(_)
MinLines(stmts) ==
    IF stmts = << >> THEN 0
    ELSE LET s == Head(stmts)
             one == IF s.kind = "simple" THEN 1
                    ELSE 1 + MinLines(s.body)
                           + (IF s.orelse = << >> THEN 0 ELSE 1 + MinLines(s.orelse))
         IN  (IF s.kind = "simple" THEN 1 ELSE s.times * one) + MinLines(Tail(stmts))

RECURSIVE ModuleMinLines(_)
ModuleMinLines(fs) ==
    IF fs = << >> THEN 0 ELSE 1 + MinLines(Head(fs).body) + ModuleMinLines(Tail(fs))

Modules ==
    { [ lines |-> lines, functions |-> fs, nodes |-> << >> ] :
        lines \in { 10, MAX_MODULE_COMPLEXITY, MAX_MODULE_COMPLEXITY + 1 },
        fs \in UNION { [ 1..n -> FunctionDefs ] : n \in 0..MaxFunctions } }

InitComplexity ==
    /\ pytest_loaded \in BOOLEAN
    /\ relaxed_limits = pytest_loaded
    /\ InitProcess
    /\ inv = 0
    /\ InitHookIdle
    /\ InitMonIdle
    /\ InitGuardIdle
    /\ InitOthersIdle
    /\ validator = "core/security.py"
    /\ source_file = NoFile
    /\ verdict = NoVerdict
    /\ verdicts = << >>
    /\ tree \in { t \in Modules : ModuleMinLines(t.functions) <= t.lines }
    /\ complexity_analyzer = NoAnalyzer
    /\ data_flow_analyzer = NoAnalyzer

\* ComplexityAnalyzer(code).analyze(); the instance is kept as analyze() left
\* it, also when it raised.
ComplexityAnalyzerAnalyze ==
    /\ ~ complexity_analyzer.analyzed
    /\ complexity_analyzer' = AnalyzeComplexity(tree, is_test_mode)
    /\ UNCHANGED << otherVars, now, envVars, meta_path, inv, hookVars, monVars, guardVars, validator,
                    source_file, verdict, verdicts, tree, data_flow_analyzer >>

NextComplexity == ComplexityAnalyzerAnalyze

SpecComplexity == InitComplexity /\ [][NextComplexity]_vars

-----------------------------------------------------------------------------
(* The DataFlowAnalyzer on its own: one instance, one analyze()            *)

\* ast.parse(code), as far as the analyzers read the tree.
ParseTree(code) ==
    [ lines |-> CodeLines(code), functions |-> CodeFunctions(code), nodes |-> CodeNodes(code) ]

DataFlowFiles ==
    { [ exists |-> TRUE, code |-> code ] :
        code \in UNION { [ 1..n -> DataFlowFragments ] : n \in 0..MaxDataFlowFragments } }

InitDataFlow ==
    /\ pytest_loaded = FALSE
    /\ relaxed_limits = FALSE
    /\ InitProcess
    /\ inv = 0
    /\ InitHookIdle
    /\ InitMonIdle
    /\ InitGuardIdle
    /\ InitOthersIdle
    /\ validator = "core/security.py"
    /\ source_file \in DataFlowFiles
    /\ verdict = NoVerdict
    /\ verdicts = << >>
    /\ tree = ParseTree(source_file.code)
    /\ complexity_analyzer = NoAnalyzer
    /\ data_flow_analyzer = NoAnalyzer

\* DataFlowAnalyzer(code).analyze(); the instance is kept as analyze() left
\* it, also when it raised.
DataFlowAnalyzerAnalyze ==
    /\ ~ data_flow_analyzer.analyzed
    /\ data_flow_analyzer' = AnalyzeDataFlow(WalkFrom(tree.nodes, 1))
    /\ UNCHANGED << otherVars, now, envVars, meta_path, inv, hookVars, monVars, guardVars, validator,
                    source_file, verdict, verdicts, tree, complexity_analyzer >>

NextDataFlow == DataFlowAnalyzerAnalyze

SpecDataFlow == InitDataFlow /\ [][NextDataFlow]_vars

-----------------------------------------------------------------------------
(* Properties of the guarded invocation (Spec) *)

Ended == pc \in { "returned", "raised" }

\* C1: whatever the outcome of a guarded invocation - the callable returns,
\* raises a SecurityError, raises anything else, or check_limits raises - once
\* the wrapper has returned or raised, its ImportHook is no longer in
\* sys.meta_path and the monitor's monitoring_active flag is false.
C1_TeardownOnEveryExit ==
    Ended => /\ ~ InList(meta_path, inv)
             /\ meta_path = << 0 >>
             /\ monitor.monitoring_active = FALSE

\* The wrapper raised because check_limits raised after the callable returned.
C1_Witness ==
    /\ pc = "raised"
    /\ callable_end.kind = "returned"
    /\ mon_out.raised = "cpu_time"
    /\ ~ InList(meta_path, inv)

\* C2 as stated: every exception of the callable that is not a SecurityError
\* reaches the caller as a SecurityError carrying the original message.
C2_Original ==
    (Ended /\ callable_end.kind \in { "Exception", "BaseException" })
        => /\ result.kind = "SecurityError"
           /\ Contains(result.msg, callable_end.msg)

\* C2, amended: an exception of the callable that derives from Exception and
\* is not a SecurityError reaches the caller as a SecurityError whose message
\* contains the original message; an exception outside the Exception
\* hierarchy (KeyboardInterrupt, SystemExit) reaches the caller unchanged.
C2_WrapsExceptionOnly ==
    /\ (Ended /\ callable_end.kind = "Exception")
          => /\ result.kind = "SecurityError"
             /\ Contains(result.msg, callable_end.msg)
             /\ result.msg # callable_end.msg
    /\ (Ended /\ callable_end.kind = "BaseException") => result = callable_end

C2_Witness ==
    /\ pc = "raised"
    /\ callable_end = [ kind |-> "Exception", msg |-> << "boom" >> ]
    /\ result.kind = "SecurityError"

\* start, then any number of "warning", then the one event last.
C3_Shape(log, last) ==
    /\ Len(log) >= 2
    /\ log[1] = "start"
    /\ log[Len(log)] = last
    /\ \A i \in 2..(Len(log) - 1) : log[i] = "warning"

-----------------------------------------------------------------------------
(* Properties of the ImportHook (SpecHook, SpecStorm, Spec) *)

\* The name equals an entry of allowed_modules or descends from one by dots.
InAllowedClosure(fullname) ==
    \E allowed \in ALLOWED_MODULES :
        \/ fullname = allowed
        \/ /\ Len(fullname) > Len(allowed) + 1
           /\ SubSeq(fullname, 1, Len(allowed) + 1) = allowed \o << Dot >>

Attempted == last_import.name # << >>

\* C4 as stated: an import attempt for a name in the closure of allowed_modules
\* never raises, an attempt for any other name always raises.
C4_Original ==
    Attempted => (last_import.raised <=> ~ InAllowedClosure(last_import.name))

\* C4, amended: an import attempt for a name in the closure of allowed_modules,
\* or for exactly "os", never raises; an attempt for any other name always
\* raises a SecurityError naming the module.
C4_AllowedClosureOrOs ==
    Attempted =>
        /\ last_import.raised <=>
              ~ (InAllowedClosure(last_import.name) \/ last_import.name = << "os" >>)
        /\ last_import.raised => Contains(last_import.msg, last_import.name)

\* A name that extends an allowed name without a dot was attempted and denied.
C4_Witness ==
    /\ last_import.name = << "pandas", "x" >>
    /\ last_import.raised

\* C5: denials are not cached.  Each of the n attempts for a disallowed name
\* raises, whatever came before and whatever abuse flags the name carries:
\* the denials of a disallowed name number its attempts.
C5_DenialsNotCached ==
    \A fullname \in DOMAIN hook.module_usage :
        ~ (InAllowedClosure(fullname) \/ fullname = << "os" >>)
            => /\ fullname \in DOMAIN denied
               /\ denied[fullname] = hook.module_usage[fullname]

\* A disallowed name attempted more than max_import_count times, the last two
\* attempts less than min_import_interval apart, every attempt denied.
C5_Witness ==
    /\ << "socket" >> \in DOMAIN denied
    /\ denied[<< "socket" >>] > max_import_count
    /\ LET times == hook.import_times[<< "socket" >>]
       IN  times[Len(times)] - times[Len(times) - 1] < min_import_interval
    /\ << "socket" >> \in hook.suspicious_modules

\* C6: a denied import is never swallowed.  An invocation during which the
\* hook denied an import ends by raising a SecurityError to the caller and
\* never returns the callable's result, whatever the guarded code does with
\* the exception.
C6_DeniedImportNeverSwallowed ==
    (Ended /\ DOMAIN denied # {}) => /\ pc = "raised"
                                     /\ result.kind = "SecurityError"

-----------------------------------------------------------------------------
(* Properties of the ResourceMonitor (SpecMon, SpecLeak) *)

\* A check_limits call whose memory read (line 128) succeeded.
CheckedLimits == mon_out.op = "check_limits" /\ mon_out.fail # "check_memory"

\* C7 as stated: check_limits raises iff the memory sample is at or above
\* max_memory_mb, and never raises when the sample is below it.
C7_Original ==
    CheckedLimits => (mon_out.raised # "none" <=> mon_out.mem >= MAX_MEMORY_MB)

\* C7, amended: check_limits raises the memory violation iff the memory sample
\* is strictly greater than max_memory_mb (a sample equal to it does not
\* raise); with the sample at or below max_memory_mb it still raises when the
\* CPU time or the elapsed time exceeds its limit, and with fewer than 10
\* samples recorded it raises in no other case.
C7_StrictlyAboveOrOtherCeiling ==
    CheckedLimits =>
        /\ mon_out.raised = "memory" <=> mon_out.mem > MAX_MEMORY_MB
        /\ mon_out.raised = "cpu_time" <=>
              /\ mon_out.mem <= MAX_MEMORY_MB
              /\ mon_out.cpu_time > CpuTimeLimit
        /\ mon_out.raised = "execution_time" <=>
              /\ mon_out.mem <= MAX_MEMORY_MB
              /\ mon_out.cpu_time <= CpuTimeLimit
              /\ mon_out.at - monitor.start_time > Ticks(ExecutionTimeLimit)
        /\ Len(monitor.memory_history) < 10 =>
              mon_out.raised \in { "none", "memory", "cpu_time", "execution_time" }

\* A sample of exactly max_memory_mb passed check_limits.
C7_Witness ==
    /\ CheckedLimits
    /\ mon_out.mem = MAX_MEMORY_MB
    /\ mon_out.raised = "none"

\* C8: calls of record_usage_snapshot inside the sampling interval are no-ops,
\* so consecutive recorded samples lie at least check_interval apart.
C8_OneSamplePerInterval ==
    \A i \in 1..(Len(monitor.memory_history) - 1) :
        monitor.memory_history[i + 1][1] - monitor.memory_history[i][1] >= check_interval

\* The window check_for_memory_leak looks at: the last 10 samples.
C9_Grows(h) ==
    /\ Len(h) >= 10
    /\ LET first == h[Len(h) - 9][2]
           final == h[Len(h)][2]
       IN  /\ final * 100 > first * 115
           /\ \A i \in (Len(h) - 8)..Len(h) : h[i][2] >= h[i - 1][2]

-----------------------------------------------------------------------------
(* Properties of static vetting (SpecValidate) *)

\* A dangerous pattern in the code: an entry of the validator's pattern table
\* matches, a call by name of eval, exec, open or system, or a use of os
\* outside what analyze_ast admits.
C10_DangerousPattern(v, code) ==
    \/ \E i \in 1..Len(dangerous_patterns(v)) : dangerous_patterns(v)[i] \in CodeMatches(code)
    \/ \E i \in 1..Len(CodeNodes(code)) :
          LET node == CodeNodes(code)[i]
          IN  \/ /\ node.type = "Call"
                 /\ \/ node.func = "Name" /\ node.id \in { "eval", "exec", "open", "system" }
                    \/ node.os_function \notin ALLOWED_OS_FUNCTIONS \cup { "" }
              \/ /\ node.type = "Attribute"
                 /\ node.value_id = "os"
                 /\ node.attr \notin { "path", "makedirs" }

\* An import of a module outside the closure of allowed_modules (os and
\* os.path aside), or an import with no module name to resolve.
C10_DisallowedImport(code) ==
    \E i \in 1..Len(CodeNodes(code)) :
        LET node == CodeNodes(code)[i]
        IN  \/ /\ node.type = "Import"
               /\ \E k \in 1..Len(node.names) :
                      ~ (InAllowedClosure(node.names[k]) \/ node.names[k] = << "os" >>)
            \/ /\ node.type = "ImportFrom"
               /\ \/ node.module_is_none
                  \/ ~ (InAllowedClosure(node.module) \/ node.module = << "os", Dot, "path" >>)

\* C10: for every source unit under the module-line ceiling that contains no
\* dangerous pattern and no disallowed import, validate returns success.
C10_CleanSourceAccepted ==
    ( /\ verdict.kind # "none"
      /\ source_file.exists
      /\ CodeLines(source_file.code) <= MAX_MODULE_COMPLEXITY
      /\ ~ C10_DangerousPattern(validator, source_file.code)
      /\ ~ C10_DisallowedImport(source_file.code) )
        => verdict.kind = "success"

\* The variant of the error taxonomy a verdict belongs to, read from the
\* message the SecurityError carries.
ErrorKind(v) ==
    IF v.kind # "SecurityError" THEN "none"
    ELSE IF v.error # "SecurityError" THEN "other"
    ELSE LET what == v.msg[2]
         IN  IF what \in { "Strategy file too large", "Excessively long line detected" }
             THEN "SizeViolation"
             ELSE IF what \in { "Dangerous function call detected: ",
                                "Dangerous pattern detected: ",
                                "Disallowed os function call detected",
                                "Disallowed os module attribute: os." }
             THEN "DangerousPattern"
             ELSE IF what \in { "Dangerous import detected: ",
                                "Dangerous import detected: from " }
             THEN "ImportViolation"
             ELSE IF what \in { "Module complexity exceeded", "Function '",
                                "Cyclomatic complexity in '", "Nested depth in '" }
             THEN "ComplexityViolation"
             ELSE "other"

\* The code holds a call by name of eval.
CallsEval(code) ==
    \E i \in 1..Len(CodeNodes(code)) :
        LET node == CodeNodes(code)[i]
        IN  node.type = "Call" /\ node.func = "Name" /\ node.id = "eval"

\* A check that runs before the dangerous-call and pattern checks fails: the
\* size and line-length pre-checks, the parse, the complexity ceilings of the
\* mode, the taint analysis.
FailsEarlier(code, test_mode) ==
    \/ CodeBytes(code) > 500 * 1024
    \/ HasLongLine(code, 800)
    \/ SyntaxErrorIn(code)
    \/ ComplexityAnalyze(code, test_mode).raised
    \/ DataFlowAnalyze(code).raised

-----------------------------------------------------------------------------
(* Properties of the ComplexityAnalyzer (SpecComplexity) *)

TooManyStatements(f) == StatementCount(f) > MAX_FUNCTION_COMPLEXITY
TooManyPaths(f) == CyclomaticComplexity(f) > MAX_CYCLOMATIC_COMPLEXITY
TooDeep(f) == GetMaxNestedDepth(f) > MAX_NESTED_DEPTH

\* The ceilings the functions of a module exceed, as the messages of the
\* analyzer, in the order the analyzer comes to them: the statement check over
\* all functions, then the cyclomatic check, then the nesting check.
Breaches(fs) ==
    LET long == SelectSeq(fs, TooManyStatements)
        wide == SelectSeq(fs, TooManyPaths)
        deep == SelectSeq(fs, TooDeep)
    IN  [ i \in 1..Len(long) |-> << "Function '", long[i].name, "' complexity exceeded" >> ]
        \o [ i \in 1..Len(wide) |-> << "Cyclomatic complexity in '", wide[i].name, "' exceeded" >> ]
        \o [ i \in 1..Len(deep) |-> << "Nested depth in '", deep[i].name, "' exceeded" >> ]

\* The names of the first k functions.
NamesUpTo(fs, k) == { fs[i].name : i \in 1..k }

\* The last function of a name.
LastNamed(fs, name) ==
    fs[CHOOSE i \in DOMAIN fs : fs[i].name = name /\ \A j \in (i + 1)..Len(fs) : fs[j].name # name]

\* The entry of a function in function_complexity once every check has run.
FullEntry(f) ==
    [ statements |-> StatementCount(f), branches |-> BranchNodes(f.body),
      cyclomatic_complexity |-> CyclomaticComplexity(f),
      max_nesting_depth |-> GetMaxNestedDepth(f) ]

AllSimple(stmts) == \A i \in DOMAIN stmts : stmts[i].kind = "simple"

\* The number of statements of a block of simple statements.
RECURSIVE SimpleStatements(_)
SimpleStatements(stmts) ==
    IF stmts = << >> THEN 0 ELSE Head(stmts).times + SimpleStatements(Tail(stmts))

\* C14: for a module of at most max_module_lines lines with a single function
\* whose body is n simple statements, without if, for, while, with or try, the
\* analyzer records statements = n, cyclomatic_complexity = 1 and
\* max_nesting_depth = 0, and the complexity checks pass.
C14_SimpleFunctionMetrics ==
    ( /\ complexity_analyzer.analyzed
      /\ tree.lines <= MAX_MODULE_COMPLEXITY
      /\ Len(tree.functions) = 1
      /\ AllSimple(tree.functions[1].body) )
        => LET f == tree.functions[1]
               a == complexity_analyzer
           IN  /\ ~ a.raised
               /\ a.warnings = << >>
               /\ f.name \in DOMAIN a.function_complexity
               /\ a.function_complexity[f.name].statements = SimpleStatements(f.body)
               /\ a.function_complexity[f.name].cyclomatic_complexity = 1
               /\ a.function_complexity[f.name].max_nesting_depth = 0

\* The bodies a function body becomes when one if, for, while or try node is
\* added to it: a new statement of that kind around `pass`, put anywhere in
\* the body, or put around one of the statements of the body.
WithBranchAdded(body) ==
    LET Before(i) == SubSeq(body, 1, i - 1)
        From(i) == SubSeq(body, i, Len(body))
    IN  { Before(i) \o Nested(kind, 1) \o From(i) :
              kind \in { "if", "for", "while", "try" }, i \in 1..(Len(body) + 1) }
        \cup
        { Before(i) \o << Stmt(kind, 1, 0, << body[i] >>, Handlers(kind)) >> \o From(i + 1) :
              kind \in { "if", "for", "while", "try" }, i \in 1..Len(body) }

\* The cyclomatic complexity the analyzer has recorded for the last function
\* of each name, with that function.
RecordedCyclomatic ==
    { << LastNamed(tree.functions, n),
         complexity_analyzer.function_complexity[n].cyclomatic_complexity >> :
         n \in NamesUpTo(tree.functions, Len(tree.functions)) }

\* C15 as stated: the cyclomatic complexity of a function never decreases
\* when an if, for, while or try node is added to its body, and a function
\* without any if, for, while or try node has cyclomatic complexity 1.
C15_Original ==
    ( complexity_analyzer.analyzed /\ ~ complexity_analyzer.raised ) =>
        \A r \in RecordedCyclomatic :
            /\ \A body \in WithBranchAdded(r[1].body) :
                   CyclomaticComplexity([ name |-> r[1].name, body |-> body ]) >= r[2]
            /\ BranchNodes(r[1].body) = 0 => r[2] = 1

\* C15: the cyclomatic complexity recorded for a function is 1, plus the
\* number of its if, for, while and try nodes, plus one for each operand
\* after the first of each `and` expression; adding an if, for, while or try
\* node to the body raises it by exactly one, and it is 1 exactly for the
\* functions with no such node and no `and`.
C15_CyclomaticCount ==
    ( complexity_analyzer.analyzed /\ ~ complexity_analyzer.raised ) =>
        \A r \in RecordedCyclomatic :
            /\ r[2] = 1 + BranchNodes(r[1].body) + AndOperands(r[1].body)
            /\ \A body \in WithBranchAdded(r[1].body) :
                   CyclomaticComplexity([ name |-> r[1].name, body |-> body ]) = r[2] + 1
            /\ r[2] = 1 <=> ( BranchNodes(r[1].body) = 0 /\ AndOperands(r[1].body) = 0 )

\* A function whose body is `return a and b`: no branch node, recorded with
\* cyclomatic complexity 2.
C15_Witness ==
    /\ complexity_analyzer.analyzed
    /\ ~ complexity_analyzer.raised
    /\ Len(tree.functions) = 1
    /\ BranchNodes(tree.functions[1].body) = 0
    /\ AndOperands(tree.functions[1].body) = 1
    /\ complexity_analyzer.function_complexity[tree.functions[1].name].cyclomatic_complexity = 2

-----------------------------------------------------------------------------
(* Properties of the DataFlowAnalyzer (SpecDataFlow) *)

\* C16: DataFlowAnalyzer.analyze never raises: on every source that parses it
\* runs to completion and only collects findings.
C16_AnalyzeNeverRaises ==
    data_flow_analyzer.analyzed => ~ data_flow_analyzer.raised

\* The names an expression refers to, in any position.
RECURSIVE NamesIn(_)
NamesIn(node) ==
    LET Children == node.operands \o node.keywords \o node.rest
    IN  (IF node.type = "Name" THEN { node.id } ELSE {})
          \cup UNION { NamesIn(Children[i]) : i \in DOMAIN Children }

\* The assignments of the tree to a simple (ast.Name) target, each as the
\* pair of the Assign node and the target.
SimpleAssignments ==
    UNION { { << tree.nodes[i], tree.nodes[i].targets[k] >> :
                k \in DOMAIN tree.nodes[i].targets } :
              i \in { j \in DOMAIN tree.nodes : tree.nodes[j].type = "Assign" } }

\* C17: after a pass, every variable assigned directly from a call of the
\* external-source set is recorded as tainted with source external, and every
\* variable assigned from an expression that refers to tainted variables only
\* is recorded as tainted with source derived and with parents exactly the
\* tainted names the expression refers to.
C17_TaintRecorded ==
    data_flow_analyzer.analyzed =>
        \A assignment \in SimpleAssignments :
            LET value == assignment[1].value
                target == assignment[2]
                flow == data_flow_analyzer.variable_flow
                tainted == data_flow_analyzer.external_data_vars
            IN  /\ IsExternalDataSource(value)
                     => /\ target \in DOMAIN flow
                        /\ flow[target].tainted
                        /\ flow[target].source = "external"
                /\ ( /\ ~ IsExternalDataSource(value)
                     /\ NamesIn(value) # {}
                     /\ NamesIn(value) \subseteq tainted )
                     => /\ target \in DOMAIN flow
                        /\ flow[target].tainted
                        /\ flow[target].source = "derived"
                        /\ flow[target].parent_vars = NamesIn(value)

\* The nodes of the tree in the order of ast.walk.
TreeWalk == WalkFrom(tree.nodes, 1)

\* The simple targets of the i-th node of a walk, and the places in the walk
\* of the assignments to a name.
TargetsAt(walk, i) ==
    IF walk[i].type = "Assign"
    THEN { walk[i].targets[k] : k \in DOMAIN walk[i].targets }
    ELSE {}

AssignedAt(walk, name) == { j \in DOMAIN walk : name \in TargetsAt(walk, j) }

\* The names assigned, anywhere in the tree, from a call of the
\* external-source set.
ExternallyAssigned ==
    { assignment[2] : assignment \in
        { a \in SimpleAssignments : IsExternalDataSource(a[1].value) } }

\* The i-th node of the walk is the only assignment to target, and every
\* assignment to a name of refs comes later in the walk (or is this one).
OnlyLaterAssigned(walk, i, target, refs) ==
    /\ AssignedAt(walk, target) = { i }
    /\ ~ IsExternalDataSource(walk[i].value)
    /\ \A x \in refs : \A j \in AssignedAt(walk, x) : j >= i

\* C18 as stated: propagation is a single forward pass in traversal order -
\* when every statement that can make x tainted comes after the assignment
\* y = <expression referring to x>, that assignment does not taint y.
C18_Original ==
    data_flow_analyzer.analyzed =>
        LET walk == TreeWalk
        IN  \A i \in DOMAIN walk : \A y \in TargetsAt(walk, i) :
                OnlyLaterAssigned(walk, i, y, NamesIn(walk[i].value))
                    => y \notin data_flow_analyzer.external_data_vars

\* C18: the external sources are collected from the whole tree before the
\* propagation pass, so an assignment whose expression leads to a name that
\* is assigned from an external source anywhere - also later - taints its
\* target; derived taint alone is propagated in one pass in the order of
\* ast.walk: an assignment does not taint its only-once-assigned target when
\* the names its expression leads to are assigned later only and never from
\* an external source.
C18_ForwardPassAfterSources ==
    data_flow_analyzer.analyzed =>
        LET walk == TreeWalk
            sources == ExternallyAssigned
        IN  \A i \in DOMAIN walk : \A y \in TargetsAt(walk, i) :
                LET used_vars == ExtractVariablesFromExpr(walk[i].value)
                IN  /\ used_vars \cap sources # {}
                         => y \in data_flow_analyzer.external_data_vars
                    /\ ( /\ used_vars \cap sources = {}
                         /\ OnlyLaterAssigned(walk, i, y, used_vars) )
                         => y \notin data_flow_analyzer.external_data_vars

\* A file where t = <y> stands before the assignment that taints y and stays
\* untainted, and y = <x> stands before the external source of x and is
\* tainted.
C18_Witness ==
    /\ data_flow_analyzer.analyzed
    /\ LET walk == TreeWalk
           sources == ExternallyAssigned
       IN  /\ \E i \in DOMAIN walk : \E t \in TargetsAt(walk, i) :
                 LET used_vars == ExtractVariablesFromExpr(walk[i].value)
                 IN  /\ used_vars \cap sources = {}
                     /\ used_vars \cap data_flow_analyzer.external_data_vars # {}
                     /\ OnlyLaterAssigned(walk, i, t, used_vars)
                     /\ t \notin data_flow_analyzer.external_data_vars
           /\ \E i \in DOMAIN walk : \E y \in TargetsAt(walk, i) :
                 LET used_vars == ExtractVariablesFromExpr(walk[i].value)
                 IN  /\ used_vars \cap sources # {}
                     /\ OnlyLaterAssigned(walk, i, y, used_vars)
                     /\ y \in data_flow_analyzer.external_data_vars

\* An argument of the call, positional or keyword, refers to a tainted
\* variable.
TaintedArgument(node) ==
    LET arguments == node.args \o node.keywords
    IN  \E k \in DOMAIN arguments :
            NamesIn(arguments[k]) \cap data_flow_analyzer.external_data_vars # {}

TaintReachesSensitive ==
    \E i \in DOMAIN tree.nodes :
        /\ tree.nodes[i].type = "Call"
        /\ IsSensitiveOperation(tree.nodes[i])
        /\ TaintedArgument(tree.nodes[i])

TaintReachesOutput ==
    \E i \in DOMAIN tree.nodes :
        /\ tree.nodes[i].type = "Call"
        /\ IsDataOutputOperation(tree.nodes[i])
        /\ TaintedArgument(tree.nodes[i])

\* C19: whenever a tainted variable is referred to by an argument of a
\* sensitive-operation call, the analysis has emitted at least one finding;
\* when no tainted variable reaches an argument of a sensitive or data-output
\* call, it has emitted none.
C19_FindingsIffTaintAtSink ==
    data_flow_analyzer.analyzed =>
        /\ TaintReachesSensitive
             => data_flow_analyzer.potential_vulnerabilities # EmptyBag
        /\ ~ (TaintReachesSensitive \/ TaintReachesOutput)
             => data_flow_analyzer.potential_vulnerabilities = EmptyBag

\* The If and While nodes of the tree whose test refers, in any position, to
\* a tainted variable, and the assignments that lie inside one of them.
TaintedTests ==
    { n \in { tree.nodes[i] : i \in DOMAIN tree.nodes } :
        /\ n.type \in { "If", "While" }
        /\ NamesIn(n.test) \cap data_flow_analyzer.external_data_vars # {} }

InsideTaintedTest(assignment) ==
    \E n \in TaintedTests :
        assignment[1].unit = n.unit /\ n.nid \in assignment[1].inside

ControlFlowTainted(name) ==
    /\ name \in DOMAIN data_flow_analyzer.variable_flow
    /\ data_flow_analyzer.variable_flow[name].control_flow_tainted

\* C20: for every if or while whose test refers to a tainted variable, in
\* any position of the test, every simple-assignment target inside the block
\* is marked control_flow_tainted; a variable that is the target of no
\* assignment inside such a block is never marked.
C20_ControlDependence ==
    data_flow_analyzer.analyzed =>
        /\ \A assignment \in SimpleAssignments :
               InsideTaintedTest(assignment) => ControlFlowTainted(assignment[2])
        /\ \A name \in DOMAIN data_flow_analyzer.variable_flow :
               ControlFlowTainted(name)
                   => \E assignment \in SimpleAssignments :
                          assignment[2] = name /\ InsideTaintedTest(assignment)

-----------------------------------------------------------------------------
(* Two guarded calls in two threads of one process                          *)

Threads == { 1, 2 }
ThreadNames == { << "pandas" >>, << "socket" >> }

\* One guard: wrapper of secure_strategy, lines 982-1034, in its own thread.
\* own holds the imports of its own callable, each with its time.
NewGuard ==
    [ pc |-> "idle", hook |-> NewImportHook, own |-> << >>,
      context |-> [ events |-> << >>, warnings |-> << >>, suspicious_activity |-> FALSE ],
      result |-> NoOutcome ]

\* An import statement met by the finders of sys.meta_path in order: a hook
\* that returns None hands the name to the next finder, a hook that raises
\* ends the import, and finder 0, the interpreter's own, ends the search.
\* hooks is the ImportHook of every finder id.
RECURSIVE FindAlongMetaPath(_, _, _, _)
FindAlongMetaPath(path, hooks, fullname, current_time) ==
    IF path = << >> \/ Head(path) = 0 THEN [ hooks |-> hooks, raised |-> FALSE ]
    ELSE LET r == FindModule(hooks[Head(path)], fullname, current_time)
             seen == [ hooks EXCEPT ![Head(path)] = r.hook ]
         IN  IF r.raised THEN [ hooks |-> seen, raised |-> TRUE ]
             ELSE FindAlongMetaPath(Tail(path), seen, fullname, current_time)

InitThreads ==
    /\ InitProduction
    /\ inv = 0
    /\ InitHookIdle
    /\ InitMonIdle
    /\ InitGuardIdle
    /\ InitVetIdle
    /\ InitSamplerIdle
    /\ InitConfigIdle
    /\ guards = [ g \in Threads |-> NewGuard ]

ThreadUnchanged ==
    UNCHANGED << envVars, vetVars, inv, hookVars, monVars, guardVars, samplerVars,
                 configVars >>

ThreadTick ==
    /\ now < MaxTime
    /\ now' = now + 1
    /\ UNCHANGED << meta_path, guards >>
    /\ ThreadUnchanged

\* wrapper(*args) of thread g up to the call of func.
ThreadCall(g) ==
    /\ guards[g].pc = "idle"
    /\ meta_path' = HookEnterPath(meta_path, g)
    /\ guards' = [ guards EXCEPT
                     ![g].pc = "running",
                     ![g].context = LogSecurityEvent(@, "start", << >>) ]
    /\ UNCHANGED now
    /\ ThreadUnchanged

\* The callable of thread g imports a module and does not catch what the
\* import raises: __exit__, the except clause and finally of its wrapper.
ThreadImport(g, fullname) ==
    /\ guards[g].pc = "running"
    /\ Len(guards[g].own) < MaxThreadImports
    /\ LET found == FindAlongMetaPath(meta_path, [ t \in Threads |-> guards[t].hook ],
                                      fullname, now)
           seen == [ t \in Threads |->
                       [ guards[t] EXCEPT
                           !.hook = found.hooks[t],
                           !.own = IF t = g THEN Append(@, << fullname, now >>) ELSE @ ] ]
           x == WrapperExcept(guards[g].context,
                              [ kind |-> "SecurityError",
                                msg |-> ImportErrorMessage(fullname) ])
       IN  IF found.raised
           THEN /\ meta_path' = HookExitPath(meta_path, g)
                /\ guards' = [ seen EXCEPT ![g].pc = "raised",
                                           ![g].context = x.context,
                                           ![g].result = x.result ]
           ELSE /\ guards' = seen
                /\ UNCHANGED meta_path
    /\ UNCHANGED now
    /\ ThreadUnchanged

\* The callable of thread g returns and no ceiling is breached.
ThreadReturn(g) ==
    /\ guards[g].pc = "running"
    /\ LET a == WrapperAfterCall(guards[g].context, guards[g].hook, "none", FALSE)
       IN  guards' = [ guards EXCEPT ![g].pc = "returned",
                                     ![g].context = a.context,
                                     ![g].result = [ kind |-> "value", msg |-> << >> ] ]
    /\ meta_path' = HookExitPath(meta_path, g)
    /\ UNCHANGED now
    /\ ThreadUnchanged

NextThreads ==
    \/ ThreadTick
    \/ \E g \in Threads : ThreadCall(g)
    \/ \E g \in Threads, fullname \in ThreadNames : ThreadImport(g, fullname)
    \/ \E g \in Threads : ThreadReturn(g)

SpecThreads == InitThreads /\ [][NextThreads]_vars

-----------------------------------------------------------------------------
(* Properties of concurrent guards (SpecThreads)                            *)

\* The ImportHook of a guard whose find_module met exactly the given imports.
RECURSIVE HookAfter(_, _)
HookAfter(h, imports) ==
    IF imports = << >> THEN h
    ELSE HookAfter(FindModule(h, Head(imports)[1], Head(imports)[2]).hook, Tail(imports))

\* C21: guards are isolated from one another.  With two guarded calls
\* running in two threads of one process, the ImportRecord (counters and
\* timestamps) and the suspicious-module set of each guard are those its own
\* callable's imports produce, and its security context holds a warning only
\* if its own callable's imports made one of its modules suspicious.
C21_GuardsIsolated ==
    guards # NoGuards =>
        \A g \in Threads :
            LET alone == HookAfter(NewImportHook, guards[g].own)
            IN  /\ guards[g].hook = alone
                /\ guards[g].context.warnings # << >> => alone.suspicious_modules # {}

-----------------------------------------------------------------------------
(* validate_strategy_file on strategies that use the os module              *)

OsFiles ==
    { [ exists |-> TRUE, code |-> code ] :
        code \in UNION { [ 1..n -> OsFragments ] : n \in 0..MaxOsFragments } }

InitOsUse ==
    /\ InitEnv
    /\ inv = 0
    /\ InitHookIdle
    /\ InitMonIdle
    /\ InitGuardIdle
    /\ InitOthersIdle
    /\ validator \in Validators
    /\ source_file \in OsFiles
    /\ verdict = NoVerdict
    /\ verdicts = << >>
    /\ InitAnalyzersIdle

NextOsUse == Validate

SpecOsUse == InitOsUse /\ [][NextOsUse]_vars

-----------------------------------------------------------------------------
(* Properties of the os facility (SpecOsUse)                                *)

\* The members of os and os.path a text refers to.
RECURSIVE OsUses(_)
OsUses(code) ==
    IF code = << >> THEN {} ELSE Fragment[Head(code)].os_uses \cup OsUses(Tail(code))

\* C22: the os facility is admitted only through the check against
\* ALLOWED_OS_FUNCTIONS.  A strategy that uses functions of os or os.path
\* is accepted if and only if every function it uses is an entry of
\* ALLOWED_OS_FUNCTIONS.
C22_OsThroughAllowList ==
    (verdict.kind # "none" /\ OsUses(source_file.code) # {}) =>
        (verdict.kind = "success" <=> OsUses(source_file.code) \subseteq ALLOWED_OS_FUNCTIONS)

-----------------------------------------------------------------------------
(* ConfigManager: stacking_sats/core/config/config_manager.py               *)
(* A configuration is a dict of sections, each a dict of keys; a value is   *)
(* written as YAML writes it.  config.yaml is held as the set of its        *)
(* entries: << section >> for a section, << section, key, value >> for a    *)
(* key of it.                                                               *)

\* self.default_config, lines 35-59, for config_dir = "dir".
default_config ==
    [ data |->
        [ source |-> "local", local_path |-> "null", remote_url |-> "null",
          cache_dir |-> "dir/data_cache" ],
      backtest |->
        [ default_initial_capital |-> "1000.0", default_fee_pct |-> "0.0",
          default_start_date |-> "null", default_end_date |-> "null" ],
      logging |->
        [ level |-> "INFO", file |-> "dir/stacking_sats.log",
          format |-> "%(asctime)s - %(name)s - %(levelname)s - %(message)s" ],
      visualization |->
        [ default_plot_style |-> "seaborn",
          default_colors |-> "['#1f77b4', '#ff7f0e', '#2ca02c', '#d62728', '#9467bd']",
          figure_size |-> "[10, 6]", save_format |-> "png" ] ]

\* yaml.dump(self.config, f), line 77
YamlDump(config) ==
    { << section >> : section \in DOMAIN config } \cup
    UNION { { << section, key, config[section][key] >> : key \in DOMAIN config[section] } :
              section \in DOMAIN config }

\* yaml.safe_load(f), line 72
YamlSafeLoad(text) ==
    [ section \in { entry[1] : entry \in { e \in text : Len(e) = 1 } } |->
        LET keys == { e \in text : Len(e) = 3 /\ e[1] = section }
        IN  [ key \in { entry[2] : entry \in keys } |->
                (CHOOSE entry \in keys : entry[2] = key)[3] ] ]

\* _save_config(), lines 74-77
SaveConfig(m) == [ exists |-> TRUE, text |-> YamlDump(m.config) ]

\* __init__ on a directory that holds no config.yaml, lines 61-67:
\* self.config is the very dict self.default_config names.  calls holds the
\* calls made on the directory so far, whatever the instance.
NewConfigManager ==
    [ constructed |-> TRUE, config |-> default_config, default_config |-> default_config,
      config_is_default_config |-> TRUE, calls |-> << "__init__" >> ]

\* __init__ on a directory that holds config.yaml.
LoadedConfigManager(file, calls) ==
    [ constructed |-> TRUE, config |-> YamlSafeLoad(file.text),
      default_config |-> default_config, config_is_default_config |-> FALSE,
      calls |-> Append(calls, "__init__") ]

\* set(section, key, value) on the dict, lines 110-113
SetValue(config, section, key, value) ==
    LET known == IF section \in DOMAIN config THEN config[section] ELSE << >>
    IN  (section :> ((key :> value) @@ known)) @@ config

\* The assignments of reset_to_defaults, lines 156-160
ResetBacktest(config) ==
    IF "backtest" \in DOMAIN config
    THEN [ config EXCEPT !["backtest"] =
             [ default_initial_capital |-> "1000.0", default_fee_pct |-> "0.0",
               default_start_date |-> "null", default_end_date |-> "null" ] @@ @ ]
    ELSE config

\* get(section, key), lines 90-99
Get(config, section, key) ==
    IF section \notin DOMAIN config THEN "KeyError"
    ELSE IF key \notin DOMAIN config[section] THEN "KeyError"
    ELSE config[section][key]

\* An assignment into self.config, which may be self.default_config itself.
Assigned(m, config, call) ==
    [ m EXCEPT !.config = config,
               !.default_config = IF m.config_is_default_config THEN config ELSE @,
               !.calls = Append(@, call) ]

\* The arguments of set(): section, key, value.
SetArguments ==
    { << "backtest", "default_initial_capital", "5000.0" >>,
      << "backtest", "default_fee_pct", "0.1" >>,
      << "data", "source", "remote" >>,
      << "logging", "level", "DEBUG" >>,
      << "test_section", "test_key", "test_value" >> }

\* The first ConfigManager on an empty directory.
InitConfig ==
    /\ InitProduction
    /\ inv = 0
    /\ InitHookIdle
    /\ InitMonIdle
    /\ InitGuardIdle
    /\ InitThreadsIdle
    /\ InitSamplerIdle
    /\ InitVetIdle
    /\ config_manager = NewConfigManager
    /\ config_file = SaveConfig(NewConfigManager)

ConfigUnchanged ==
    UNCHANGED << now, envVars, vetVars, meta_path, inv, hookVars, monVars, guardVars,
                 threadVars, samplerVars >>

\* ConfigManager(config_dir) again on the same directory.
ConfigManagerOpen ==
    /\ Len(config_manager.calls) <= MaxConfigCalls
    /\ config_manager.calls[Len(config_manager.calls)] # "__init__"
    /\ config_manager' = LoadedConfigManager(config_file, config_manager.calls)
    /\ UNCHANGED config_file
    /\ ConfigUnchanged

ConfigManagerSet(section, key, value) ==
    /\ Len(config_manager.calls) <= MaxConfigCalls
    /\ config_manager' = Assigned(config_manager,
                                  SetValue(config_manager.config, section, key, value), "set")
    /\ config_file' = SaveConfig(config_manager')
    /\ ConfigUnchanged

ConfigManagerResetToDefaults ==
    /\ Len(config_manager.calls) <= MaxConfigCalls
    /\ config_manager' = Assigned(config_manager, ResetBacktest(config_manager.config),
                                  "reset_to_defaults")
    /\ config_file' = SaveConfig(config_manager')
    /\ ConfigUnchanged

NextConfig ==
    \/ ConfigManagerOpen
    \/ \E arguments \in SetArguments :
          ConfigManagerSet(arguments[1], arguments[2], arguments[3])
    \/ ConfigManagerResetToDefaults

SpecConfig == InitConfig /\ [][NextConfig]_vars

-----------------------------------------------------------------------------
(* Properties of the ConfigManager (SpecConfig)                             *)

\* Every key of the default configuration reads its default value.
ReadsDefaults(config) ==
    \A section \in DOMAIN default_config :
        \A key \in DOMAIN default_config[section] :
            Get(config, section, key) = default_config[section][key]

LastCall(m) == m.calls[Len(m.calls)]

\* C23: reset_to_defaults restores the defaults.  After any sequence of
\* set() calls followed by reset_to_defaults(), every key of the default
\* configuration reads its default value, from the same instance and from a
\* new ConfigManager opened on the same directory.
C23_ResetRestoresDefaults ==
    (config_manager.constructed /\ LastCall(config_manager) = "reset_to_defaults") =>
        /\ ReadsDefaults(config_manager.config)
        /\ ReadsDefaults(LoadedConfigManager(config_file, << >>).config)

-----------------------------------------------------------------------------
(* check_limits on a monitor with a sample history: all four ceilings        *)

\* The process stayed at 300 MB for the first k samples and at hi afterwards.
StepHistory(n, k, hi) == [ i \in 1..n |-> IF i <= k THEN 300 ELSE hi ]

InitLimits ==
    /\ pytest_loaded \in BOOLEAN
    /\ relaxed_limits = pytest_loaded
    /\ meta_path = << 0 >>
    /\ inv = 1
    /\ InitHookIdle
    /\ InitGuardIdle
    /\ InitOthersIdle
    /\ InitVetIdle
    /\ \E n \in 0..MaxLeakSamples, k \in 0..MaxLeakSamples, hi \in LeakLevels :
          /\ k <= n
          /\ now = n
          /\ monitor = SampledMonitor(NewResourceMonitor(0, is_test_mode),
                                      StepHistory(n, k, hi), 1)
    /\ mon_out = NoMonOut

LimitsTick ==
    /\ now <= MaxLeakSamples
    /\ now' = now + 1
    /\ UNCHANGED << otherVars, envVars, vetVars, meta_path, inv, hookVars, monVars, guardVars >>

\* Nothing samples the process for a whole execution-time limit.
LimitsStall ==
    /\ now <= MaxLeakSamples
    /\ now' = now + Ticks(ExecutionTimeLimit)
    /\ UNCHANGED << otherVars, envVars, vetVars, meta_path, inv, hookVars, monVars, guardVars >>

LimitsCheck(r) ==
    /\ mon_out.op = "none"
    /\ LET cl == CheckLimits(monitor, now, r)
       IN  /\ monitor' = cl.monitor
           /\ mon_out' = [ op |-> "check_limits", raised |-> cl.raised, mem |-> r.mem,
                           cpu_time |-> r.cpu_time, fail |-> r.fail, at |-> now ]
    /\ UNCHANGED << otherVars, now, envVars, vetVars, meta_path, inv, hookVars, guardVars >>

NextLimits ==
    \/ LimitsTick
    \/ LimitsStall
    \/ \E r \in { c \in CheckReads : c.fail \in { "none", "check_memory" } } : LimitsCheck(r)

SpecLimits == InitLimits /\ [][NextLimits]_vars

\* The order in which check_limits looks at the ceilings.
CheckOrder == << "memory", "cpu_time", "execution_time", "leak" >>

\* The ceiling is breached at the check_limits call recorded in mon_out.
Breached(kind) ==
    CASE kind = "memory"         -> mon_out.mem > MAX_MEMORY_MB
      [] kind = "cpu_time"       -> mon_out.cpu_time > CpuTimeLimit
      [] kind = "execution_time" ->
             mon_out.at - monitor.start_time > Ticks(ExecutionTimeLimit)
      [] kind = "leak"           -> CheckForMemoryLeak(monitor) = "raise"

\* C24: a check_limits call raises at most one error, and when ceilings are
\* breached it reports the first breached one in the order memory, CPU time,
\* wall-clock time, escalated leak; it returns normally iff none is breached.
C24_FirstBreachReported ==
    CheckedLimits =>
        /\ mon_out.raised = "none" <=> \A i \in 1..4 : ~ Breached(CheckOrder[i])
        /\ \A i \in 1..4 :
              mon_out.raised = CheckOrder[i] <=>
                  /\ Breached(CheckOrder[i])
                  /\ \A j \in 1..(i - 1) : ~ Breached(CheckOrder[j])

\* All four ceilings were breached at once and the memory violation was
\* the one reported.
C24_Witness ==
    /\ CheckedLimits
    /\ \A i \in 1..4 : Breached(CheckOrder[i])
    /\ mon_out.raised = "memory"

-----------------------------------------------------------------------------
(* The tainted set of a DataFlowAnalyzer, step by step through analyze()     *)

TaintFiles ==
    { [ exists |-> TRUE, code |-> code ] :
        code \in UNION { [ 1..n -> TaintFragments ] : n \in 0..MaxTaintFragments } }

InitTaint ==
    /\ pytest_loaded = FALSE
    /\ relaxed_limits = FALSE
    /\ InitProcess
    /\ inv = 0
    /\ InitHookIdle
    /\ InitMonIdle
    /\ InitGuardIdle
    /\ InitOthersIdle
    /\ validator = "core/security.py"
    /\ source_file \in TaintFiles
    /\ verdict = NoVerdict
    /\ verdicts = << >>
    /\ tree = ParseTree(source_file.code)
    /\ complexity_analyzer = NoAnalyzer
    /\ data_flow_analyzer = NoAnalyzer

NextTaint == DataFlowAnalyzerAnalyze

SpecTaint == InitTaint /\ [][NextTaint]_vars

\* The analyzer after each step of analyze() over walk: after every
\* assignment _build_assignment_map visits, after every assignment
\* _track_variable_transformations visits, and after the checks.
PassSteps(walk) ==
    LET assigns == Assignments(walk)
        n == Len(assigns)
        built == BuildAssignmentMap(assigns, NewDataFlowAnalyzer)
    IN  [ i \in 1..(n + 1) |->
            BuildAssignmentMap(SubSeq(assigns, 1, i - 1), NewDataFlowAnalyzer) ]
          \o [ i \in 1..n |-> TrackVariableTransformations(SubSeq(assigns, 1, i), built) ]
          \o << AnalyzeDataFlow(walk) >>

\* The variables recorded as tainted in the analyzer a.
Tainted(a) ==
    a.external_data_vars
        \cup { v \in DOMAIN a.variable_flow : a.variable_flow[v].tainted }

\* The i-th assignment of the walk gives var a value that uses no tainted
\* name and is no call of an external data source.
ReassignedUntainted(assigns, i, var, a) ==
    /\ \E k \in DOMAIN assigns[i].targets : assigns[i].targets[k] = var
    /\ ExtractVariablesFromExpr(assigns[i].value) \cap a.external_data_vars = {}
    /\ ~ IsExternalDataSource(assigns[i].value)

\* C25: within one pass a variable recorded as tainted stays recorded as
\* tainted through every later step, and also at the end of the pass.
C25_TaintNeverRetracted ==
    data_flow_analyzer.analyzed =>
        LET steps == PassSteps(WalkFrom(tree.nodes, 1))
        IN  /\ steps[Len(steps)] = data_flow_analyzer
            /\ \A i \in 1..(Len(steps) - 1) :
                  /\ steps[i].external_data_vars \subseteq steps[i + 1].external_data_vars
                  /\ Tainted(steps[i]) \subseteq Tainted(steps[i + 1])
                  /\ \A v \in steps[i].external_data_vars :
                        /\ v \in DOMAIN steps[i + 1].variable_flow
                        /\ steps[i + 1].variable_flow[v].tainted

\* A tainted variable was assigned again from an untainted expression at a
\* later step of the propagation and is still in the tainted set.
C25_Witness ==
    /\ data_flow_analyzer.analyzed
    /\ LET assigns == Assignments(WalkFrom(tree.nodes, 1))
           n == Len(assigns)
           steps == PassSteps(WalkFrom(tree.nodes, 1))
       IN  \E i \in 2..n, var \in data_flow_analyzer.external_data_vars :
              /\ var \in steps[n + i].external_data_vars
              /\ ReassignedUntainted(assigns, i, var, steps[n + i])
              /\ var \in steps[n + 1 + i].external_data_vars

-----------------------------------------------------------------------------
(* Properties of the ImportHook's usage record (Spec) *)

\* The times of the find_module calls for fullname among calls, in order.
RECURSIVE AttemptTimes(_, _)
AttemptTimes(calls, fullname) ==
    IF calls = << >> THEN << >>
    ELSE (IF Head(calls)[1] = fullname THEN << Head(calls)[2] >> ELSE << >>)
             \o AttemptTimes(Tail(calls), fullname)

\* C26: at every point of a guarded invocation the names with a counter, the
\* names with a timestamp list and the names attempted so far are the same,
\* and for each of them the counter equals the length of the timestamp list
\* and the number of attempts, allowed or denied, and the list holds the times
\* of the attempts in attempt order.
C26_ImportRecordBookkeeping ==
    /\ DOMAIN hook.module_usage = { attempts[i][1] : i \in DOMAIN attempts }
    /\ DOMAIN hook.import_times = DOMAIN hook.module_usage
    /\ \A fullname \in DOMAIN hook.module_usage :
          /\ hook.module_usage[fullname] = Len(hook.import_times[fullname])
          /\ hook.module_usage[fullname] = Len(AttemptTimes(attempts, fullname))
          /\ hook.import_times[fullname] = AttemptTimes(attempts, fullname)

\* A guarded call attempted a disallowed name twice at different times, both
\* attempts denied and caught by the callable.
C26_Witness ==
    /\ pc = "running"
    /\ << "socket" >> \in DOMAIN denied
    /\ denied[<< "socket" >>] = 2
    /\ hook.module_usage[<< "socket" >>] = 2
    /\ hook.import_times[<< "socket" >>][1] < hook.import_times[<< "socket" >>][2]

-----------------------------------------------------------------------------
(* check_infinite_loop_risk on functions with while loops                    *)

\* The blocks of a loop: without a break, with a break of the loop, with a
\* break under an if, with a break of a for or while loop nested in it, with
\* a nested `while True` that has none, and with a break in the else block of
\* a nested for loop.
LoopBlocks ==
    { Simple(1),
      << Break >>,
      << Stmt("if", 1, 0, << Break >>, << >>) >>,
      << Stmt("for", 1, 0, << Break >>, << >>) >>,
      << While("True", << Break >>, << >>) >>,
      << While("True", Simple(1), << >>) >>,
      << Stmt("for", 1, 0, Simple(1), << Break >>) >> }

LoopBodies ==
    { Simple(1) }
        \cup { << While(test, block, << >>) >> : test \in { "True", "x" }, block \in LoopBlocks }
        \cup { << Stmt("for", 1, 0, << While("True", block, << >>) >>, << >>) >> :
                 block \in { Simple(1), << Break >> } }

LoopModules ==
    { [ lines |-> 20, functions |-> fs, nodes |-> << >> ] :
        fs \in UNION { [ 1..n -> { [ name |-> name, body |-> body ] :
                                     name \in { "f", "g" }, body \in LoopBodies } ] :
                         n \in 0..MaxFunctions } }

InitLoops ==
    /\ pytest_loaded \in BOOLEAN
    /\ relaxed_limits = pytest_loaded
    /\ InitProcess
    /\ inv = 0
    /\ InitHookIdle
    /\ InitMonIdle
    /\ InitGuardIdle
    /\ InitOthersIdle
    /\ validator = "core/security.py"
    /\ source_file = NoFile
    /\ verdict = NoVerdict
    /\ verdicts = << >>
    /\ tree \in LoopModules
    /\ complexity_analyzer = NoAnalyzer
    /\ data_flow_analyzer = NoAnalyzer

NextLoops == ComplexityAnalyzerAnalyze

SpecLoops == InitLoops /\ [][NextLoops]_vars

\* A break in the block leaves the loop the block is the body of: it stands
\* in the block itself, under an if, with or try of it, or in the else block
\* of a loop nested in it, but not in the body of a nested loop.
RECURSIVE ExitsLoop(_)
ExitsLoop(stmts) ==
    \E i \in DOMAIN stmts :
        LET s == stmts[i]
        IN  \/ s.kind = "break"
            \/ /\ s.kind \in { "if", "with", "try" }
               /\ ExitsLoop(s.body) \/ ExitsLoop(s.orelse)
            \/ /\ s.kind \in { "for", "while" }
               /\ ExitsLoop(s.orelse)

\* Below the block there is a while loop whose test is the literal True and
\* from whose body no break exits that loop.
RECURSIVE HasEndlessWhile(_)
HasEndlessWhile(stmts) ==
    \E i \in DOMAIN stmts :
        LET s == stmts[i]
        IN  \/ /\ s.kind = "while"
               /\ "test" \in DOMAIN s
               /\ s.test = "True"
               /\ ~ ExitsLoop(s.body)
            \/ HasEndlessWhile(s.body)
            \/ HasEndlessWhile(s.orelse)

\* C27: the analysis never raises for the heuristic, and a function is listed
\* in infinite_loop_risk if and only if it contains a `while True` loop from
\* whose body no break exits that loop; a break of a nested loop does not
\* count.
C27_InfiniteLoopRiskListed ==
    complexity_analyzer.analyzed =>
        /\ ~ complexity_analyzer.raised
        /\ \A i \in DOMAIN tree.functions :
              (\E k \in DOMAIN complexity_analyzer.infinite_loop_risk :
                   complexity_analyzer.infinite_loop_risk[k] = tree.functions[i].name)
                <=> \E j \in DOMAIN tree.functions :
                       /\ tree.functions[j].name = tree.functions[i].name
                       /\ HasEndlessWhile(tree.functions[j].body)

-----------------------------------------------------------------------------
(* Properties of the parents relation of variable_flow (SpecDataFlow) *)

\* The parents recorded for var: parent_vars of a derived entry.
Parents(variable_flow, var) ==
    IF var \in DOMAIN variable_flow /\ variable_flow[var].source = "derived"
    THEN variable_flow[var].parent_vars
    ELSE {}

\* The variables reached from frontier along the parents relation.
RECURSIVE AncestorsFrom(_, _, _)
AncestorsFrom(variable_flow, frontier, seen) ==
    LET next == UNION { Parents(variable_flow, var) : var \in frontier } \ seen
    IN  IF next = {} THEN seen
        ELSE AncestorsFrom(variable_flow, next, seen \cup next)

Ancestors(variable_flow, var) == AncestorsFrom(variable_flow, { var }, {})

\* C28: after the propagation pass no variable is directly or transitively
\* its own parent, so _get_source_chain returns for every tainted variable.
C28_ParentsAcyclic ==
    data_flow_analyzer.analyzed =>
        \A var \in DOMAIN data_flow_analyzer.variable_flow :
            /\ var \notin Ancestors(data_flow_analyzer.variable_flow, var)
            /\ ~ SourceChainDiverges(data_flow_analyzer.variable_flow, var, {})

-----------------------------------------------------------------------------
(* Properties of the two usage histories (SpecMon) *)

\* C29: memory_history and cpu_history have the same length and their i-th
\* entries carry the same elapsed time, and max_memory is the largest memory
\* value of memory_history.
C29_HistoriesAligned ==
    /\ Len(monitor.memory_history) = Len(monitor.cpu_history)
    /\ \A i \in DOMAIN monitor.memory_history :
          monitor.memory_history[i][1] = monitor.cpu_history[i][1]
    /\ monitor.memory_history # << >> =>
          /\ \E i \in DOMAIN monitor.memory_history :
                monitor.memory_history[i][2] = monitor.max_memory
          /\ \A i \in DOMAIN monitor.memory_history :
                monitor.memory_history[i][2] <= monitor.max_memory

-----------------------------------------------------------------------------
(* start_continuous_monitoring in a background thread, stop_monitoring (or   *)
(* the finally block of the wrapper) in the thread that owns the monitor     *)

\* The thread target was started and has not run line 92 yet; its owner has
\* not stopped the monitor yet.
InitSampler ==
    /\ InitProduction
    /\ inv = 1
    /\ InitHookIdle
    /\ InitMonIdle
    /\ InitGuardIdle
    /\ InitVetIdle
    /\ InitThreadsIdle
    /\ InitConfigIdle
    /\ sampling = [ loop |-> "start", owner |-> "running" ]

SamplerUnchanged ==
    UNCHANGED << envVars, vetVars, meta_path, inv, hookVars, guardVars, threadVars,
                 configVars >>

\* line 92: self.monitoring_active = True
SamplerStart ==
    /\ sampling.loop = "start"
    /\ monitor' = [ monitor EXCEPT !.monitoring_active = TRUE ]
    /\ sampling' = [ sampling EXCEPT !.loop = "test" ]
    /\ UNCHANGED << now, mon_out >>
    /\ SamplerUnchanged

\* line 93: while self.monitoring_active
SamplerTest ==
    /\ sampling.loop = "test"
    /\ sampling' = [ sampling EXCEPT
                       !.loop = IF monitor.monitoring_active THEN "snapshot" ELSE "done" ]
    /\ UNCHANGED << now, monVars >>
    /\ SamplerUnchanged

\* line 94: self.record_usage_snapshot()
SamplerSnapshot(memory_mb, cpu_percent, fail) ==
    /\ sampling.loop = "snapshot"
    /\ fail = "snapshot_cpu" => Len(monitor.memory_history) < MaxSamples
    /\ monitor' = RecordUsageSnapshot(monitor, now, memory_mb, cpu_percent, fail)
    /\ mon_out' = [ op |-> "record_usage_snapshot", raised |-> "none", mem |-> memory_mb,
                    cpu_time |-> 0, fail |-> fail, at |-> now ]
    /\ sampling' = [ sampling EXCEPT !.loop = "sleep" ]
    /\ UNCHANGED now
    /\ SamplerUnchanged

\* line 95: time.sleep(self.check_interval).  The clock of the model stands
\* still once it shows MaxSamplerTime.
SamplerSleep ==
    /\ sampling.loop = "sleep"
    /\ now' = IF now < MaxSamplerTime THEN now + check_interval ELSE now
    /\ sampling' = [ sampling EXCEPT !.loop = "test" ]
    /\ UNCHANGED monVars
    /\ SamplerUnchanged

\* The thread that runs the sampling loop takes its next step.
SamplerRun ==
    \/ SamplerStart
    \/ SamplerTest
    \/ \E memory_mb \in MemSamples, cpu_percent \in CpuPercentSamples,
          fail \in { "none", "snapshot_memory", "snapshot_cpu" } :
          SamplerSnapshot(memory_mb, cpu_percent, fail)
    \/ SamplerSleep

\* stop_monitoring(), line 99, or the finally block of the wrapper, line 1034:
\* self.monitoring_active = False
OwnerStop ==
    /\ sampling.owner = "running"
    /\ monitor' = [ monitor EXCEPT !.monitoring_active = FALSE ]
    /\ sampling' = [ sampling EXCEPT !.owner = "stopped" ]
    /\ UNCHANGED << now, mon_out >>
    /\ SamplerUnchanged

NextSampler ==
    \/ SamplerRun
    \/ OwnerStop

\* The scheduler lets the thread of the sampling loop run again and again.
SpecSampler == InitSampler /\ [][NextSampler]_vars /\ WF_vars(SamplerRun)

\* C30: once the monitor has been stopped, the sampling loop terminates
\* eventually, whenever the stop happened.
C30_StopEndsSampling ==
    (sampling.owner = "stopped") ~> (sampling.loop = "done")

====
